---- MODULE Spec2Model ----
(***************************************************************************)
(* Model of the AI Team Monitor query core: the data-level cache, the      *)
(* intent classifier, the GitHub fan-out connector and handleAIQuery       *)
(* (src/src/response-generator.js, src/src/github-client.js, the JIRA      *)
(* client and the query parser).                                           *)
(*                                                                         *)
(* Strings that the code inspects character by character (questions,      *)
(* aliases, model outputs, repository full names) are tuples of one        *)
(* character strings; identifiers that the code only passes around are     *)
(* plain strings.  Time is Date.now() in milliseconds.                     *)
(***************************************************************************)
EXTENDS Integers, Sequences, FiniteSets, TLC

VARIABLES
    now,        \* Date.now(), in milliseconds
    ticks,      \* number of clock advances so far
    dataCache,  \* the Map dataCache: cacheKey -> [data, timestamp]
    lastWrite,  \* history: cacheKey -> the last setCachedData on it
    lastGet,    \* observation of the latest direct getCachedData call
    fan,        \* observation of the latest direct fan-out search
    cls,        \* observation of the latest direct classifyIntent call
    calls,      \* the handleAIQuery invocations in flight or last returned
    invocations,\* number of handleAIQuery invocations so far
    resolved,   \* observation of the latest direct findUserInQuery call
    tracker     \* observation of the latest direct JIRA search

vars == <<now, ticks, dataCache, lastWrite, lastGet, fan, cls, calls,
          invocations, resolved, tracker>>

-----------------------------------------------------------------------------
(* Bounds *)

MaxTicks == 3

\* Longest text, in words, handed to findUserInQuery.
MaxWords == 3

\* Longest activity feed (list of events) handed to getContributionRepos.
MaxEvents == 3

\* Number of times the cache lifetime elapses while queries are handled.
MaxWaits == 1

\* Number of handleAIQuery invocations.
MaxCalls == 2

-----------------------------------------------------------------------------
(* The clock *)

CACHE_TTL == 5 * 60 * 1000

\* The steps by which the clock advances: one millisecond, or one TTL.
TickSteps == {1, CACHE_TTL}

-----------------------------------------------------------------------------
(* Text: strings as tuples of characters *)

LowerChars == <<"a","b","c","d","e","f","g","h","i","j","k","l","m",
                "n","o","p","q","r","s","t","u","v","w","x","y","z">>
UpperChars == <<"A","B","C","D","E","F","G","H","I","J","K","L","M",
                "N","O","P","Q","R","S","T","U","V","W","X","Y","Z">>

Range(seq) == {seq[i] : i \in DOMAIN seq}

toUpperCaseChar(c) ==
    IF \E i \in DOMAIN LowerChars : LowerChars[i] = c
    THEN UpperChars[CHOOSE i \in DOMAIN LowerChars : LowerChars[i] = c]
    ELSE c

toLowerCaseChar(c) ==
    IF \E i \in DOMAIN UpperChars : UpperChars[i] = c
    THEN LowerChars[CHOOSE i \in DOMAIN UpperChars : UpperChars[i] = c]
    ELSE c

\* String.prototype.toUpperCase / toLowerCase
toUpperCase(str) == [i \in DOMAIN str |-> toUpperCaseChar(str[i])]
toLowerCase(str) == [i \in DOMAIN str |-> toLowerCaseChar(str[i])]

WhiteSpace == {" ", "\n", "\t"}

\* String.prototype.trim: white space removed at both ends.
RECURSIVE trimStart(_)
trimStart(str) ==
    IF str # <<>> /\ Head(str) \in WhiteSpace
    THEN trimStart(Tail(str)) ELSE str

RECURSIVE trimEnd(_)
trimEnd(str) ==
    IF str # <<>> /\ str[Len(str)] \in WhiteSpace
    THEN trimEnd(SubSeq(str, 1, Len(str) - 1)) ELSE str

trim(str) == trimEnd(trimStart(str))

\* String.prototype.includes: sub occurs in str as a contiguous substring.
includes(str, sub) ==
    \E i \in 0..(Len(str) - Len(sub)) :
        SubSeq(str, i + 1, i + Len(sub)) = sub

\* String.prototype.split with a one character separator.
RECURSIVE split(_, _)
split(str, sep) ==
    IF \A i \in DOMAIN str : str[i] # sep
    THEN <<str>>
    ELSE LET i == CHOOSE j \in DOMAIN str :
                      str[j] = sep /\ \A k \in 1..(j - 1) : str[k] # sep
         IN <<SubSeq(str, 1, i - 1)>> \o split(SubSeq(str, i + 1, Len(str)), sep)

\* A number as a template literal prints it: its decimal digits.
Digits == <<"0", "1", "2", "3", "4", "5", "6", "7", "8", "9">>

RECURSIVE NumberText(_)
NumberText(n) ==
    IF n < 10 THEN <<Digits[n + 1]>>
    ELSE NumberText(n \div 10) \o <<Digits[(n % 10) + 1]>>

\* All sequences over S of length at most n.
RECURSIVE SeqsUpTo(_, _)
SeqsUpTo(S, n) ==
    IF n = 0 THEN {<<>>}
    ELSE LET shorter == SeqsUpTo(S, n - 1)
         IN shorter \cup {Append(q, x) : q \in shorter, x \in S}

-----------------------------------------------------------------------------
(* Data cache *)

\* True when the Map has an entry under the key.
Has(cache, cacheKey) == cacheKey \in DOMAIN cache

MapSet(cache, cacheKey, entry) ==
    [k \in DOMAIN cache \cup {cacheKey} |->
        IF k = cacheKey THEN entry ELSE cache[k]]

MapDelete(cache, cacheKey) ==
    [k \in DOMAIN cache \ {cacheKey} |-> cache[k]]

\* Mutation of isExpired: every entry counts as expired.
isExpired_always(cached, t) == TRUE

\* Mutation of isExpired: the subtraction the wrong way round.
isExpired_reversed(cached, t) == (cached.timestamp - t) > CACHE_TTL

isExpired(cached, t) == (t - cached.timestamp) > CACHE_TTL

\* Mutation of getCachedData: an expired entry is reported as a miss but
\* left in the Map.
getCachedData_keepExpired(cache, cacheKey, t) ==
    IF ~Has(cache, cacheKey) \/ isExpired(cache[cacheKey], t)
    THEN [hit |-> FALSE, data |-> <<>>, cache |-> cache]
    ELSE [hit |-> TRUE, data |-> cache[cacheKey].data, cache |-> cache]

\* Mutation of getCachedData: an empty payload is treated as a miss.
getCachedData_falsyEmpty(cache, cacheKey, t) ==
    IF ~Has(cache, cacheKey)
    THEN [hit |-> FALSE, data |-> <<>>, cache |-> cache]
    ELSE IF isExpired(cache[cacheKey], t)
         THEN [hit |-> FALSE, data |-> <<>>,
               cache |-> MapDelete(cache, cacheKey)]
         ELSE [hit |-> Len(cache[cacheKey].data) > 0,
               data |-> cache[cacheKey].data, cache |-> cache]

\* Mutation of getCachedData: a read of an expired entry sweeps every
\* expired entry out of the Map.
getCachedData_sweep(cache, cacheKey, t) ==
    IF ~Has(cache, cacheKey)
    THEN [hit |-> FALSE, data |-> <<>>, cache |-> cache]
    ELSE IF isExpired(cache[cacheKey], t)
         THEN [hit |-> FALSE, data |-> <<>>,
               cache |-> [k \in {j \in DOMAIN cache : ~isExpired(cache[j], t)}
                             |-> cache[k]]]
         ELSE [hit |-> TRUE, data |-> cache[cacheKey].data, cache |-> cache]

\* getCachedData at time t: the value returned and the Map afterwards.
getCachedData(cache, cacheKey, t) ==
    IF ~Has(cache, cacheKey)
    THEN [hit |-> FALSE, data |-> <<>>, cache |-> cache]
    ELSE IF isExpired(cache[cacheKey], t)
         THEN [hit |-> FALSE, data |-> <<>>,
               cache |-> MapDelete(cache, cacheKey)]
         ELSE [hit |-> TRUE, data |-> cache[cacheKey].data, cache |-> cache]

\* Mutation of setCachedData: an entry that exists is not replaced.
setCachedData_keepFirst(cache, cacheKey, data, t) ==
    IF Has(cache, cacheKey) THEN cache
    ELSE MapSet(cache, cacheKey, [data |-> data, timestamp |-> t])

\* Mutation of setCachedData: the payload is returned without being stored.
setCachedData_notStored(cache, cacheKey, data, t) == cache

\* setCachedData at time t: the Map afterwards.
setCachedData(cache, cacheKey, data, t) ==
    MapSet(cache, cacheKey, [data |-> data, timestamp |-> t])

-----------------------------------------------------------------------------
(* Inputs of the cache-level specification *)

CacheKeyInputs == {<<"jira", "Mike Ross">>, <<"commits", "mikeross88">>}

PayloadInputs ==
    {<<>>,
     <<[key |-> "TS-102"]>>,
     <<[key |-> "TS-102"], [key |-> "TS-104"]>>}

NoGet == [op |-> "none"]

Kinds == {"jira", "prs", "commits"}

\* The invocations the model follows at a time: two requests may overlap, and
\* the record of a returned invocation is kept until a later one replaces it.
Slots == {1, 2}

\* An invocation that has not begun.
IdleCall ==
    [pc |-> "idle", question |-> <<>>,
     user |-> [jiraId |-> "", githubId |-> ""],
     intent |-> "", seq |-> 0, startedAt |-> 0, warm |-> {},
     fetch |-> [k \in Kinds |-> "none"],
     data |-> [k \in Kinds |-> <<>>],
     upstream |-> [k \in Kinds |-> 0],
     reads |-> {}, writes |-> {},
     classifierCalls |-> 0, summaryCalls |-> 0,
     context |-> [k \in Kinds |-> <<>>],
     failedAfter |-> [k \in Kinds |-> <<>>],
     discovery |-> [k \in Kinds |-> "none"],
     caught |-> <<>>,
     result |-> ""]

Init ==
    /\ now = 0
    /\ ticks = 0
    /\ dataCache = <<>>
    /\ lastWrite = <<>>
    /\ lastGet = NoGet
    /\ fan = [op |-> "none"]
    /\ cls = [op |-> "none"]
    /\ calls = [c \in Slots |-> IdleCall]
    /\ invocations = 0
    /\ resolved = [op |-> "none"]
    /\ tracker = [op |-> "none"]

Tick(d) ==
    /\ ticks < MaxTicks
    /\ now' = now + d
    /\ ticks' = ticks + 1
    /\ UNCHANGED <<dataCache, lastWrite, lastGet, fan, cls, calls,
                   invocations, resolved, tracker>>

CacheSet(cacheKey, data) ==
    /\ dataCache' = setCachedData(dataCache, cacheKey, data, now)
    /\ lastWrite' = MapSet(lastWrite, cacheKey, [data |-> data, at |-> now])
    /\ UNCHANGED <<now, ticks, lastGet, fan, cls, calls, invocations,
                   resolved, tracker>>

CacheGet(cacheKey) ==
    LET r == getCachedData(dataCache, cacheKey, now) IN
    /\ dataCache' = r.cache
    /\ lastGet' = [op |-> "get", key |-> cacheKey, at |-> now,
                   hit |-> r.hit, data |-> r.data,
                   existed |-> Has(dataCache, cacheKey),
                   storedAt |-> IF Has(dataCache, cacheKey)
                                THEN dataCache[cacheKey].timestamp ELSE 0,
                   written |-> Has(lastWrite, cacheKey),
                   writtenAt |-> IF Has(lastWrite, cacheKey)
                                 THEN lastWrite[cacheKey].at ELSE 0,
                   writtenData |-> IF Has(lastWrite, cacheKey)
                                   THEN lastWrite[cacheKey].data ELSE <<>>,
                   presentAfter |-> Has(r.cache, cacheKey)]
    /\ UNCHANGED <<now, ticks, lastWrite, fan, cls, calls, invocations,
                   resolved, tracker>>

NextCache ==
    \/ \E d \in TickSteps : Tick(d)
    \/ \E k \in CacheKeyInputs, p \in PayloadInputs : CacheSet(k, p)
    \/ \E k \in CacheKeyInputs : CacheGet(k)

SpecCache == Init /\ [][NextCache]_vars

-----------------------------------------------------------------------------
(* Upstream failures: the error messages the connectors can fail with *)

ErrorMessages ==
    {<<"J", "I", "R", "A", " ", "A", "P", "I", " ", "r", "e", "q", "u",
       "e", "s", "t", " ", "f", "a", "i", "l", "e", "d", " ", "w", "i",
       "t", "h", " ", "s", "t", "a", "t", "u", "s", " ", "4", "0", "1",
       ":", " ", "U", "n", "a", "u", "t", "h", "o", "r", "i", "z", "e",
       "d">>,
     <<"R", "e", "q", "u", "e", "s", "t", " ", "f", "a", "i", "l", "e",
       "d", " ", "w", "i", "t", "h", " ", "s", "t", "a", "t", "u", "s",
       " ", "c", "o", "d", "e", " ", "4", "0", "4">>,
     <<"A", "P", "I", " ", "r", "a", "t", "e", " ", "l", "i", "m", "i",
       "t", " ", "e", "x", "c", "e", "e", "d", "e", "d">>,
     <<"s", "o", "c", "k", "e", "t", " ", "h", "a", "n", "g", " ", "u",
       "p">>}

-----------------------------------------------------------------------------
(* The code host as the GitHub connector sees it *)

Hour == 60 * 60 * 1000
Day == 24 * Hour

RepoA == <<"o", "/", "a">>
RepoB == <<"o", "/", "b">>
RepoC == <<"p", "/", "c">>
\* A name without a slash, which the fan-out skips.
RepoMalformed == <<"x">>
\* An event without a repository (e.repo?.name is undefined).
NoName == <<>>

NoLogin == "none"

\* GET /repos/{owner}/{repo}/commits without filters: the commits of the
\* repository, by any author.
GitHubCommits(owner, repo) ==
    IF <<owner, repo>> = <<(<<"o">>), (<<"a">>)>>
    THEN <<[sha |-> "a1", author |-> "mikeross88", date |-> 0 - Day],
           [sha |-> "a2", author |-> "sarah-connor", date |-> 0 - 2 * Hour],
           [sha |-> "a0", author |-> "mikeross88", date |-> 0 - 8 * Day]>>
    ELSE IF <<owner, repo>> = <<(<<"o">>), (<<"b">>)>>
    THEN <<[sha |-> "b1", author |-> "mikeross88", date |-> 0 - 3 * Hour],
           [sha |-> "b2", author |-> "PraveenPandey987", date |-> 0 - 3 * Day]>>
    ELSE <<>>

\* GET /repos/{owner}/{repo}/pulls with state open: by any author.
GitHubOpenPulls(owner, repo) ==
    IF <<owner, repo>> = <<(<<"o">>), (<<"a">>)>>
    THEN <<[title |-> "Fix login", login |-> "mikeross88"],
           [title |-> "Docs", login |-> "sarah-connor"]>>
    ELSE IF <<owner, repo>> = <<(<<"o">>), (<<"b">>)>>
    THEN <<[title |-> "Ghost", login |-> NoLogin],
           [title |-> "Cache", login |-> "PraveenPandey987"]>>
    ELSE IF <<owner, repo>> = <<(<<"p">>), (<<"c">>)>>
    THEN <<[title |-> "Refactor", login |-> "mikeross88"]>>
    ELSE <<>>

\* getRecentCommits at time t: the author's commits since 7 days before t.
getRecentCommits(username, owner, repo, t) ==
    LET since == t - 7 * Day
        wanted(c) == c.author = username /\ c.date >= since
    IN SelectSeq(GitHubCommits(owner, repo), wanted)

\* getActivePullRequests: the open pull requests, filtered by author.
getActivePullRequests(username, owner, repo) ==
    LET mine(pr) == pr.login = username
    IN SelectSeq(GitHubOpenPulls(owner, repo), mine)

\* [...new Set(names.filter(Boolean))]: falsy names dropped, repeated names
\* dropped after their first occurrence.
RECURSIVE getContributionRepos(_)
getContributionRepos(eventRepoNames) ==
    IF eventRepoNames = <<>> THEN <<>>
    ELSE LET n == Len(eventRepoNames)
             before == getContributionRepos(SubSeq(eventRepoNames, 1, n - 1))
             name == eventRepoNames[n]
         IN IF name = NoName \/ name \in Range(before)
            THEN before ELSE Append(before, name)

\* {...record, repo: fullName} for every record of a list.
WithRepo(records, fullName) ==
    [i \in DOMAIN records |-> [repo |-> fullName] @@ records[i]]

\* const [owner, repo] = fullName.split('/'): the second part is the empty
\* string when there is none (undefined in the code, falsy alike).
OwnerOf(fullName) == split(fullName, "/")[1]
RepoOf(fullName) ==
    IF Len(split(fullName, "/")) >= 2 THEN split(fullName, "/")[2] ELSE <<>>

\* Mutation of CommitsLoop: a failing repository ends the loop (the try
\* around the loop instead of inside it).
RECURSIVE CommitsLoop_abort(_, _, _, _)
CommitsLoop_abort(username, repoFullNames, failing, t) ==
    IF repoFullNames = <<>> THEN <<>>
    ELSE LET fullName == Head(repoFullNames)
             owner == OwnerOf(fullName)
             repo == RepoOf(fullName)
         IN IF owner = <<>> \/ repo = <<>>
            THEN CommitsLoop_abort(username, Tail(repoFullNames), failing, t)
            ELSE IF fullName \in failing
            THEN <<>>
            ELSE WithRepo(getRecentCommits(username, owner, repo, t), fullName)
                 \o CommitsLoop_abort(username, Tail(repoFullNames), failing, t)

\* The loop of searchRecentCommitsByUser: failing is the set of repositories
\* whose getRecentCommits request throws.
RECURSIVE CommitsLoop(_, _, _, _)
CommitsLoop(username, repoFullNames, failing, t) ==
    IF repoFullNames = <<>> THEN <<>>
    ELSE LET fullName == Head(repoFullNames)
             owner == OwnerOf(fullName)
             repo == RepoOf(fullName)
             allCommits ==
                 IF owner = <<>> \/ repo = <<>>
                 THEN <<>>           \* continue
                 ELSE IF fullName \in failing
                 THEN <<>>           \* caught and logged
                 ELSE WithRepo(getRecentCommits(username, owner, repo, t),
                               fullName)
         IN allCommits \o CommitsLoop(username, Tail(repoFullNames), failing, t)

\* The loop of searchActivePRsByUser.
RECURSIVE PRsLoop(_, _, _)
PRsLoop(username, repoFullNames, failing) ==
    IF repoFullNames = <<>> THEN <<>>
    ELSE LET fullName == Head(repoFullNames)
             owner == OwnerOf(fullName)
             repo == RepoOf(fullName)
             allPRs ==
                 IF owner = <<>> \/ repo = <<>>
                 THEN <<>>
                 ELSE IF fullName \in failing
                 THEN <<>>
                 ELSE WithRepo(getActivePullRequests(username, owner, repo),
                               fullName)
         IN allPRs \o PRsLoop(username, Tail(repoFullNames), failing)

\* The outcome of the activity feed request of getContributionRepos.
FeedFails(error) == [ok |-> FALSE, error |-> error, names |-> <<>>]
FeedOk(eventRepoNames) == [ok |-> TRUE, error |-> <<>>, names |-> eventRepoNames]

\* The result of a connector call: an error thrown or the data returned,
\* with the repositories it sent a per-repository request for.
Raise(error) ==
    [raised |-> TRUE, error |-> error, data |-> <<>>, requests |-> <<>>,
     discovery |-> "none"]
Return(data) ==
    [raised |-> FALSE, error |-> <<>>, data |-> data, requests |-> <<>>,
     discovery |-> "none"]

\* The per-repository requests of the two loops: one for every repository
\* name that has an owner and a name, in the order of the list.
RECURSIVE RepoRequests(_)
RepoRequests(repoFullNames) ==
    IF repoFullNames = <<>> THEN <<>>
    ELSE LET fullName == Head(repoFullNames)
         IN (IF OwnerOf(fullName) = <<>> \/ RepoOf(fullName) = <<>>
             THEN <<>> ELSE <<fullName>>)
                \o RepoRequests(Tail(repoFullNames))

\* Mutation of searchRecentCommitsByUser: a failure of the repository
\* discovery is logged and gives an empty list.
searchRecentCommitsByUser_tolerant(username, feed, failing, t) ==
    IF ~feed.ok THEN [Return(<<>>) EXCEPT !.discovery = "failed"]
    ELSE [Return(CommitsLoop(username, getContributionRepos(feed.names),
                             failing, t))
            EXCEPT !.requests = RepoRequests(getContributionRepos(feed.names)),
                   !.discovery = "ok"]

searchRecentCommitsByUser(username, feed, failing, t) ==
    IF ~feed.ok THEN [Raise(feed.error) EXCEPT !.discovery = "failed"]
    ELSE [Return(CommitsLoop(username, getContributionRepos(feed.names),
                             failing, t))
            EXCEPT !.requests = RepoRequests(getContributionRepos(feed.names)),
                   !.discovery = "ok"]

searchActivePRsByUser(username, feed, failing) ==
    IF ~feed.ok THEN [Raise(feed.error) EXCEPT !.discovery = "failed"]
    ELSE [Return(PRsLoop(username, getContributionRepos(feed.names), failing))
            EXCEPT !.requests = RepoRequests(getContributionRepos(feed.names)),
                   !.discovery = "ok"]

-----------------------------------------------------------------------------
(* Specification of the fan-out searches alone *)

GitHubUsers == {"mikeross88", "sarah-connor"}

EventRepoNames == {RepoA, RepoB, RepoC, RepoMalformed, NoName}

FeedInputs ==
    {FeedFails(e) : e \in ErrorMessages}
        \cup {FeedOk(names) : names \in SeqsUpTo(EventRepoNames, MaxEvents)}

RunSearchCommits(username, feed, failing) ==
    LET r == searchRecentCommitsByUser(username, feed, failing, now) IN
    /\ fan.op = "none"
    /\ fan' = [op |-> "commits", username |-> username, feed |-> feed,
               failing |-> failing, raised |-> r.raised, data |-> r.data]
    /\ UNCHANGED <<now, ticks, dataCache, lastWrite, lastGet, cls, calls,
                   invocations, resolved, tracker>>

RunSearchPRs(username, feed, failing) ==
    LET r == searchActivePRsByUser(username, feed, failing) IN
    /\ fan.op = "none"
    /\ fan' = [op |-> "prs", username |-> username, feed |-> feed,
               failing |-> failing, raised |-> r.raised, data |-> r.data]
    /\ UNCHANGED <<now, ticks, dataCache, lastWrite, lastGet, cls, calls,
                   invocations, resolved, tracker>>

NextFanOut ==
    \E username \in GitHubUsers, feed \in FeedInputs :
        \E failing \in SUBSET Range(getContributionRepos(feed.names)) :
            \/ RunSearchCommits(username, feed, failing)
            \/ RunSearchPRs(username, feed, failing)

SpecFanOut == Init /\ [][NextFanOut]_vars

-----------------------------------------------------------------------------
(* Intent classification *)

Intents == {"JIRA", "COMMITS", "PRS", "FULL_SUMMARY"}

\* The four labels as the characters the model may answer with.
LabelText(intent) ==
    CASE intent = "JIRA" -> <<"J", "I", "R", "A">>
      [] intent = "COMMITS" -> <<"C", "O", "M", "M", "I", "T", "S">>
      [] intent = "PRS" -> <<"P", "R", "S">>
      [] intent = "FULL_SUMMARY" ->
            <<"F", "U", "L", "L", "_", "S", "U", "M", "M", "A", "R", "Y">>

\* The outcome of genAI.models.generateContent in classifyIntent: the call
\* fails, or answers without a text, or answers with a text.
ModelFails == [kind |-> "fail", text |-> <<>>]
ModelNoText == [kind |-> "notext", text |-> <<>>]
ModelText(text) == [kind |-> "text", text |-> text]

\* Mutation of classifyIntent: the label is returned without validation and
\* a failure of the model call is rethrown.
classifyIntent_unchecked(outcome) ==
    IF outcome.kind # "text"
    THEN [raised |-> TRUE, intent |-> "FULL_SUMMARY"]
    ELSE LET intent == toUpperCase(trim(outcome.text))
         IN IF \E l \in Intents : LabelText(l) = intent
            THEN [raised |-> FALSE,
                  intent |-> CHOOSE l \in Intents : LabelText(l) = intent]
            ELSE [raised |-> FALSE, intent |-> "INVALID"]

\* classifyIntent: the try block either returns a validated label or throws
\* (the call fails, or intentResult.text is undefined and .trim() throws);
\* the catch block returns FULL_SUMMARY.
classifyIntent(outcome) ==
    LET thrown == outcome.kind # "text"
        intent == toUpperCase(trim(outcome.text))
    IN IF thrown
       THEN [raised |-> FALSE, intent |-> "FULL_SUMMARY"]
       ELSE IF \E l \in Intents : LabelText(l) = intent
       THEN [raised |-> FALSE,
             intent |-> CHOOSE l \in Intents : LabelText(l) = intent]
       ELSE [raised |-> FALSE, intent |-> "FULL_SUMMARY"]

-----------------------------------------------------------------------------
(* Specification of classifyIntent alone *)

\* A label with only its first letter in upper case.
Capitalized(str) ==
    [i \in DOMAIN str |-> IF i = 1 THEN str[i] ELSE toLowerCaseChar(str[i])]

Padding == {<<>>, <<" ">>, <<"\n">>}

\* Texts that are a label in some letter case.
LabelWords ==
    UNION {{LabelText(l), toLowerCase(LabelText(l)), Capitalized(LabelText(l))}
           : l \in Intents}

\* Texts that are no label.
OtherWords ==
    {<<>>,
     <<"J", "I", "R", "A", ".">>,
     <<"J", "I", "R", "A", " ", "P", "R", "S">>,
     <<"F", "U", "L", "L">>}

ModelTextInputs ==
    {pre \o word \o post :
        pre \in Padding, word \in LabelWords \cup OtherWords, post \in Padding}

ModelOutcomeInputs ==
    {ModelFails, ModelNoText} \cup {ModelText(text) : text \in ModelTextInputs}

RunClassify(outcome) ==
    LET r == classifyIntent(outcome) IN
    /\ cls.op = "none"
    /\ cls' = [op |-> "classify", outcome |-> outcome,
               raised |-> r.raised, intent |-> r.intent]
    /\ UNCHANGED <<now, ticks, dataCache, lastWrite, lastGet, fan, calls,
                   invocations, resolved, tracker>>

NextClassify == \E outcome \in ModelOutcomeInputs : RunClassify(outcome)

SpecClassify == Init /\ [][NextClassify]_vars

-----------------------------------------------------------------------------
(* Identity resolution *)

\* Mutation of userMapping: an entry without a code host id.
userMapping_partial ==
    <<[key |-> <<"m","i","k","e">>, jiraId |-> "Mike Ross", githubId |-> ""],
      [key |-> <<"l","i","s","a">>,
       jiraId |-> "Lisa Smith", githubId |-> "lsmith"]>>

\* userMapping, in the order of its keys (the order of a for-in loop).
userMapping ==
    <<
      [key |-> <<"p","r","a","v","e","e","n","k"," ","p","a","n","d","e","y">>,
       jiraId |-> "Praveenk Pandey", githubId |-> "PraveenPandey987"],
      [key |-> <<"p","r","a","v","e","e","n","p","a","n","d","e","y","9","8","7">>,
       jiraId |-> "Praveenk Pandey", githubId |-> "PraveenPandey987"],
      [key |-> <<"p","p","7","0","0","7","1","4","4","4","3","5","@","g","m","a",
                 "i","l",".","c","o","m">>,
       jiraId |-> "pp7007144435@gmail.com", githubId |-> "PraveenPandey987"],
      [key |-> <<"m","i","k","e">>,
       jiraId |-> "Mike Ross", githubId |-> "mikeross88"],
      [key |-> <<"s","a","r","a","h">>,
       jiraId |-> "Sarah Connor", githubId |-> "sarah-connor"],
      [key |-> <<"l","i","s","a">>,
       jiraId |-> "Lisa Smith", githubId |-> "lsmith"]
    >>

NoUser == [jiraId |-> "", githubId |-> ""]

\* Mutation of findUserInQuery: the text is not lower-cased.
findUserInQuery_caseSensitive(question) ==
    LET found == {i \in DOMAIN userMapping :
                     includes(question, userMapping[i].key)}
    IN IF found = {} THEN NoUser
       ELSE LET first == CHOOSE i \in found : \A j \in found : i <= j
            IN [jiraId |-> userMapping[first].jiraId,
                githubId |-> userMapping[first].githubId]

\* Mutation of findUserInQuery: the first two characters of a key are enough
\* for a match.
findUserInQuery_prefix(question) ==
    LET normalizedQuery == toLowerCase(question)
        found == {i \in DOMAIN userMapping :
                     includes(normalizedQuery,
                              SubSeq(userMapping[i].key, 1, 2))}
    IN IF found = {} THEN NoUser
       ELSE LET first == CHOOSE i \in found : \A j \in found : i <= j
            IN [jiraId |-> userMapping[first].jiraId,
                githubId |-> userMapping[first].githubId]

\* findUserInQuery: the identity of the first key of userMapping that the
\* lower-cased question includes, or null.
findUserInQuery(question) ==
    LET normalizedQuery == toLowerCase(question)
        found == {i \in DOMAIN userMapping :
                     includes(normalizedQuery, userMapping[i].key)}
    IN IF found = {} THEN NoUser
       ELSE LET first == CHOOSE i \in found : \A j \in found : i <= j
            IN [jiraId |-> userMapping[first].jiraId,
                githubId |-> userMapping[first].githubId]

-----------------------------------------------------------------------------
(* Specification of findUserInQuery alone *)

\* The pieces the texts are made of: aliases in several letter cases, parts
\* of aliases, a space and a word that is no alias.
Words ==
    {<<"M", "i", "k", "e">>,
     <<"L", "I", "S", "A">>,
     <<"s", "a", "r", "a", "h">>,
     <<"P", "r", "a", "v", "e", "e", "n", "P", "a", "n", "d", "e", "y", "9", "8", "7">>,
     <<"p", "p", "7", "0", "0", "7", "1", "4", "4", "4", "3", "5", "@", "g", "m", "a", "i", "l", ".", "c", "o", "m">>,
     <<"P", "r", "a", "v", "e", "e", "n", "k">>,
     <<" ">>,
     <<"P", "a", "n", "d", "e", "y">>,
     <<"m", "i">>,
     <<"k", "e">>,
     <<"w", "h", "o">>}

RECURSIVE Concat(_)
Concat(words) ==
    IF words = <<>> THEN <<>> ELSE Head(words) \o Concat(Tail(words))

TextInputs == {Concat(w) : w \in SeqsUpTo(Words, MaxWords)}

RunResolve(text) ==
    /\ resolved.op = "none"
    /\ resolved' = [op |-> "resolve", text |-> text,
                    user |-> findUserInQuery(text)]
    /\ UNCHANGED <<now, ticks, dataCache, lastWrite, lastGet, fan, cls, calls,
                   invocations, tracker>>

NextResolve == \E text \in TextInputs : RunResolve(text)

SpecResolve == Init /\ [][NextResolve]_vars

-----------------------------------------------------------------------------
(* The issue tracker as the JIRA connector sees it *)

\* The issues assigned to a user that the tracker has ever listed as open,
\* most recently updated first.
JiraIssues(userQuery) ==
    IF userQuery = "Mike Ross"
    THEN <<[key |-> "TS-102", lastUpdated |-> 0 - 2 * Hour]>>
    ELSE IF userQuery \in {"Praveenk Pandey", "pp7007144435@gmail.com"}
    THEN <<[key |-> "TS-1", lastUpdated |-> 1 - Hour]>>
    ELSE <<>>

\* The response of the search request: its status, the text of its body
\* and, for a success status, the issues of its body.  response.ok is true
\* for the statuses 200 to 299.
ResponseOk(issues) ==
    [ok |-> TRUE, status |-> 200, text |-> <<>>, issues |-> issues]
ResponseFails(status, errorData) ==
    [ok |-> status \in 200..299, status |-> status, text |-> errorData,
     issues |-> <<>>]

\* `JIRA API request failed with status ${response.status}: ${errorData}`
JiraErrorMessage(status, errorData) ==
    <<"J", "I", "R", "A", " ", "A", "P", "I", " ", "r", "e", "q", "u",
      "e", "s", "t", " ", "f", "a", "i", "l", "e", "d", " ", "w", "i",
      "t", "h", " ", "s", "t", "a", "t", "u", "s", " ">>
        \o NumberText(status) \o <<":", " ">> \o errorData

\* Mutation of SimplifiedIssues: the relative time is worked out when the
\* issues are fetched and kept in the records.
SimplifiedIssues_stamped(issues) ==
    [i \in DOMAIN issues |->
        [key |-> issues[i].key, lastUpdated |-> issues[i].lastUpdated,
         relativeTime |-> <<0, "just now">>]]

\* The simplified list the two searches return.
SimplifiedIssues(issues) ==
    [i \in DOMAIN issues |->
        [key |-> issues[i].key, lastUpdated |-> issues[i].lastUpdated]]

searchActiveIssuesByUser(userQuery, response) ==
    IF ~response.ok
    THEN Raise(JiraErrorMessage(response.status, response.text))
    ELSE Return(SimplifiedIssues(response.issues))

\* Mutation of searchAllIssuesByUser: a failure status gives an empty list.
searchAllIssuesByUser_swallow(userQuery, response) ==
    IF ~response.ok THEN Return(<<>>)
    ELSE Return(SimplifiedIssues(response.issues))

searchAllIssuesByUser(userQuery, response) ==
    IF ~response.ok
    THEN Raise(JiraErrorMessage(response.status, response.text))
    ELSE Return(SimplifiedIssues(response.issues))

-----------------------------------------------------------------------------
(* Specification of the JIRA searches alone *)

JiraUsers == {"Mike Ross", "Lisa Smith", "pp7007144435@gmail.com"}

\* The statuses of the tracker's failing answers and the texts of their
\* bodies.
StatusInputs == {400, 401, 403, 404, 429, 500, 503}

BodyInputs ==
    {<<>>,
     <<"F", "o", "r", "b", "i", "d", "d", "e", "n">>,
     <<"B", "a", "d", " ", "J", "Q", "L", ":", " ", "4", "0", "0">>}

IssueInputs ==
    {<<>>,
     <<[key |-> "TS-102", lastUpdated |-> 0 - 2 * Hour]>>,
     <<[key |-> "TS-104", lastUpdated |-> 0 - Hour],
       [key |-> "TS-102", lastUpdated |-> 0 - 2 * Hour]>>}

TrackerResponses ==
    {ResponseOk(issues) : issues \in IssueInputs}
        \cup {ResponseFails(status, errorData) :
                 status \in StatusInputs, errorData \in BodyInputs}

RunSearchActiveIssues(userQuery, response) ==
    LET r == searchActiveIssuesByUser(userQuery, response) IN
    /\ tracker.op = "none"
    /\ tracker' = [op |-> "active", userQuery |-> userQuery,
                   response |-> response, raised |-> r.raised,
                   error |-> r.error, data |-> r.data]
    /\ UNCHANGED <<now, ticks, dataCache, lastWrite, lastGet, fan, cls, calls,
                   invocations, resolved>>

RunSearchAllIssues(userQuery, response) ==
    LET r == searchAllIssuesByUser(userQuery, response) IN
    /\ tracker.op = "none"
    /\ tracker' = [op |-> "all", userQuery |-> userQuery,
                   response |-> response, raised |-> r.raised,
                   error |-> r.error, data |-> r.data]
    /\ UNCHANGED <<now, ticks, dataCache, lastWrite, lastGet, fan, cls, calls,
                   invocations, resolved>>

NextJira ==
    \E userQuery \in JiraUsers, response \in TrackerResponses :
        \/ RunSearchActiveIssues(userQuery, response)
        \/ RunSearchAllIssues(userQuery, response)

SpecJira == Init /\ [][NextJira]_vars

\* The activity feed of a user: the repository name of each event.
ActivityFeed(username) ==
    IF username = "mikeross88" THEN <<RepoA, RepoA, NoName>>
    ELSE IF username = "PraveenPandey987" THEN <<RepoB>>
    ELSE IF username = "lsmith" THEN <<RepoC>>
    ELSE <<>>

-----------------------------------------------------------------------------
(* handleAIQuery *)

\* A returned string: its fixed text, and the values interpolated into it
\* (the two ids of the user, or the text of error.message).
Answer(text, a, b, error) == [text |-> text, a |-> a, b |-> b, error |-> error]

UnknownUserReply ==
    Answer("I'm sorry, I couldn't find a known user", "", "", <<>>)
NoActivityReply(user) ==
    Answer("I found the user, but they have no recent activity",
           user.jiraId, user.githubId, <<>>)
SummaryReply == Answer("response.text", "", "", <<>>)
RepoNotFoundReply ==
    Answer("Sorry, I couldn't find one or more repositories", "", "", <<>>)
AuthErrorReply ==
    Answer("Authentication error: Please check your API credentials",
           "", "", <<>>)
RateLimitReply ==
    Answer("API rate limit exceeded. Please try again in a few minutes",
           "", "", <<>>)
GenericErrorReply(error) ==
    Answer("An error occurred while fetching data", "", "", error)

\* The catch block of handleAIQuery; error is the text of error.message.
errorReply(error) ==
    LET message == error IN
    IF includes(message, <<"4", "0", "4">>) THEN RepoNotFoundReply
    ELSE IF \/ includes(message, <<"4", "0", "1">>)
            \/ includes(message, <<"4", "0", "3">>) THEN AuthErrorReply
    ELSE IF includes(message,
                     <<"r", "a", "t", "e", " ", "l", "i", "m", "i", "t">>)
    THEN RateLimitReply
    ELSE GenericErrorReply(error)

\* getRelativeTime at time t: a count and its phrase.
getRelativeTime(date, t) ==
    LET diffMs == t - date
        diffDays == diffMs \div Day
        diffHours == diffMs \div Hour
        diffMinutes == diffMs \div (60 * 1000)
    IN IF diffDays > 0
       THEN <<diffDays, IF diffDays > 1 THEN "days ago" ELSE "day ago">>
       ELSE IF diffHours > 0
       THEN <<diffHours, IF diffHours > 1 THEN "hours ago" ELSE "hour ago">>
       ELSE IF diffMinutes > 0
       THEN <<diffMinutes,
              IF diffMinutes > 1 THEN "minutes ago" ELSE "minute ago">>
       ELSE <<0, "just now">>

\* Step 5: {...issue, relativeTime} and {...commit, relativeTime}.
IssuesWithRelativeTime(jiraIssues, t) ==
    [i \in DOMAIN jiraIssues |->
        [relativeTime |-> getRelativeTime(jiraIssues[i].lastUpdated, t)]
            @@ jiraIssues[i]]

CommitsWithRelativeTime(githubCommits, t) ==
    [i \in DOMAIN githubCommits |->
        [relativeTime |->
            IF "date" \in DOMAIN githubCommits[i]
            THEN getRelativeTime(githubCommits[i].date, t)
            ELSE <<0, "unknown">>]
            @@ githubCommits[i]]

\* Mutation of KindsFor: every intent fetches the three kinds.
KindsFor_all(intent) == <<"jira", "prs", "commits">>

\* Mutation of KindsFor: the PRS branch fetches the commits as well.
KindsFor_prsAndCommits(intent) ==
    IF intent = "JIRA" THEN <<"jira">>
    ELSE IF intent = "COMMITS" THEN <<"commits">>
    ELSE IF intent = "PRS" THEN <<"prs", "commits">>
    ELSE <<"jira", "prs", "commits">>

\* Step 3: the fetches issued for an intent, in the order they are issued.
KindsFor(intent) ==
    IF intent = "JIRA" THEN <<"jira">>
    ELSE IF intent = "COMMITS" THEN <<"commits">>
    ELSE IF intent = "PRS" THEN <<"prs">>
    ELSE <<"jira", "prs", "commits">>

\* Mutation of cacheKey: the key holds both identifiers of the user.
cacheKey_bothIds(kind, user) == <<kind, user.jiraId, user.githubId>>

\* Mutation of cacheKey: every kind is keyed by the tracker's identifier.
cacheKey_jiraIdOnly(kind, user) == <<kind, user.jiraId>>

\* The cache key of fetchJiraData, fetchPRsData and fetchCommitsData.
cacheKey(kind, user) ==
    IF kind = "jira" THEN <<"jira", user.jiraId>> ELSE <<kind, user.githubId>>

\* Mutation of IssueFetches: the kinds are served from the cache only when
\* all of them are cached; one miss sends all of them upstream.
IssueFetches_allOrNothing(kinds, rec, cache, t) ==
    LET asked == {kinds[i] : i \in DOMAIN kinds}
        allHit == \A k \in asked :
                      getCachedData(cache, cacheKey(k, rec.user), t).hit
    IN [rec |->
           [rec EXCEPT
               !.reads = @ \cup {cacheKey(k, rec.user) : k \in asked},
               !.fetch = [k \in Kinds |->
                             IF k \notin asked THEN @[k]
                             ELSE IF allHit THEN "hit" ELSE "pending"],
               !.data = [k \in Kinds |->
                            IF k \in asked /\ allHit
                            THEN cache[cacheKey(k, rec.user)].data ELSE @[k]],
               !.upstream = [k \in Kinds |->
                                IF k \in asked /\ ~allHit THEN @[k] + 1 ELSE @[k]]],
        cache |-> cache]

\* Mutation of IssueFetches: an empty cached list is taken for a miss.
RECURSIVE IssueFetches_refetchEmpty(_, _, _, _)
IssueFetches_refetchEmpty(kinds, rec, cache, t) ==
    IF kinds = <<>> THEN [rec |-> rec, cache |-> cache]
    ELSE LET kind == Head(kinds)
             key == cacheKey(kind, rec.user)
             cachedData == getCachedData(cache, key, t)
             read == [rec EXCEPT !.reads = @ \cup {key}]
             next == IF cachedData.hit /\ cachedData.data # <<>>
                     THEN [read EXCEPT !.fetch[kind] = "hit",
                                       !.data[kind] = cachedData.data]
                     ELSE [read EXCEPT !.fetch[kind] = "pending",
                                       !.upstream[kind] = @ + 1]
         IN IssueFetches_refetchEmpty(Tail(kinds), next, cachedData.cache, t)

\* The synchronous part of the fetch functions called in step 3: each reads
\* the cache; on a hit it returns the payload, on a miss it calls its
\* connector and waits.
RECURSIVE IssueFetches(_, _, _, _)
IssueFetches(kinds, rec, cache, t) ==
    IF kinds = <<>> THEN [rec |-> rec, cache |-> cache]
    ELSE LET kind == Head(kinds)
             key == cacheKey(kind, rec.user)
             cachedData == getCachedData(cache, key, t)
             read == [rec EXCEPT !.reads = @ \cup {key}]
             next == IF cachedData.hit
                     THEN [read EXCEPT !.fetch[kind] = "hit",
                                       !.data[kind] = cachedData.data]
                     ELSE [read EXCEPT !.fetch[kind] = "pending",
                                       !.upstream[kind] = @ + 1]
         IN IssueFetches(Tail(kinds), next, cachedData.cache, t)

\* Mutation of Advance: no check for empty data before the summary.
Advance_noEmptyCheck(rec, t) ==
    [rec EXCEPT !.pc = "summarize",
                !.summaryCalls = @ + 1,
                !.context = [jira |-> IssuesWithRelativeTime(rec.data["jira"], t),
                             prs |-> rec.data["prs"],
                             commits |->
                                 CommitsWithRelativeTime(rec.data["commits"], t)]]

\* Mutation of Advance: when every kind of the intent came from the cache,
\* the answer is returned without a call of the summarizer.
Advance_cachedResponse(rec, t) ==
    IF \A k \in Kinds : rec.data[k] = <<>>
    THEN [rec EXCEPT !.pc = "done", !.result = NoActivityReply(rec.user)]
    ELSE IF \A k \in Kinds : rec.fetch[k] \in {"none", "hit"}
    THEN [rec EXCEPT !.pc = "done", !.result = SummaryReply]
    ELSE [rec EXCEPT
             !.pc = "summarize",
             !.summaryCalls = @ + 1,
             !.context = [jira |-> IssuesWithRelativeTime(rec.data["jira"], t),
                          prs |-> rec.data["prs"],
                          commits |->
                              CommitsWithRelativeTime(rec.data["commits"], t)]]

\* Steps 4 to 8 up to the await of the summary: the data of the kinds that
\* were not fetched is the empty list the variables were initialised with.
Advance(rec, t) ==
    LET jiraIssues == rec.data["jira"]
        githubPRs == rec.data["prs"]
        githubCommits == rec.data["commits"]
    IN IF Len(jiraIssues) = 0 /\ Len(githubPRs) = 0 /\ Len(githubCommits) = 0
       THEN [rec EXCEPT !.pc = "done", !.result = NoActivityReply(rec.user)]
       ELSE [rec EXCEPT
                !.pc = "summarize",
                !.summaryCalls = @ + 1,
                !.context = [jira |-> IssuesWithRelativeTime(jiraIssues, t),
                             prs |-> githubPRs,
                             commits |->
                                 CommitsWithRelativeTime(githubCommits, t)]]

\* The awaited fetches of step 3 have all returned.
AllFetched(rec) ==
    \A k \in Range(KindsFor(rec.intent)) : rec.fetch[k] \in {"hit", "ok"}

\* Mutation of Continue: handleAIQuery goes on as soon as one fetch has
\* returned.
Continue_early(rec, t) ==
    IF rec.pc = "fetch" /\ \E k \in Kinds : rec.fetch[k] \in {"hit", "ok"}
    THEN Advance(rec, t)
    ELSE rec

Continue(rec, t) ==
    IF rec.pc = "fetch" /\ AllFetched(rec) THEN Advance(rec, t) ELSE rec

\* A fetch function resumes after its connector returned: the payload is
\* cached and returned.
Resolve(rec, kind, data) ==
    [rec EXCEPT !.fetch[kind] = "ok",
                !.data[kind] = data,
                !.writes = @ \cup {cacheKey(kind, rec.user)}]

\* Mutation of Reject: the failure is swallowed by the fetch function, whose
\* promise then never settles.
Reject_neverSettles(rec, kind, error) ==
    [rec EXCEPT !.fetch[kind] = "failed"]

\* Mutation of Reject: the connector is called again after a failure.
Reject_retry(rec, kind, error) ==
    [rec EXCEPT !.upstream[kind] = @ + 1]

\* Mutation of Reject: the rejection is not caught and leaves handleAIQuery.
Reject_uncaught(rec, kind, error) ==
    [rec EXCEPT !.fetch[kind] = "failed", !.pc = "done", !.caught = error,
                !.result = Answer("(rejected)", "", "", error)]

\* A fetch function fails because its connector threw: when handleAIQuery
\* still waits, the await of step 3 throws and the catch block answers.
Reject(rec, kind, error) ==
    LET failed == [rec EXCEPT !.fetch[kind] = "failed"]
    IN IF rec.pc = "fetch"
       THEN [failed EXCEPT !.pc = "done", !.caught = error,
                           !.result = errorReply(error)]
       ELSE failed

\* An invocation that has returned and has no fetch in flight.
Complete(rec) ==
    rec.pc = "done" /\ \A k \in Kinds : rec.fetch[k] # "pending"

-----------------------------------------------------------------------------
(* The actions of handleAIQuery *)

\* "Mike?" and "who?"
QuestionInputs ==
    {<<"M", "i", "k", "e", "?">>,
     <<"w", "h", "o", "?">>}

ClassifierOutcomes ==
    {ModelFails,
     ModelText(<<" ", "j", "i", "r", "a", "\n">>),
     ModelText(<<"C", "O", "M", "M", "I", "T", "S">>),
     ModelText(<<"p", "r", "s">>),
     ModelText(<<"F", "U", "L", "L", "_", "S", "U", "M", "M", "A", "R", "Y">>),
     ModelText(<<"J", "I", "R", "A", ".">>)}

\* The failures the collaborators answer with while queries are handled:
\* the tracker with status 401, the code host with its rate limit message,
\* the model with a network error.
JiraErrors ==
    {[status |-> 401,
      text |-> <<"U", "n", "a", "u", "t", "h", "o", "r", "i", "z", "e",
                "d">>]}
GitHubErrors ==
    {<<"A", "P", "I", " ", "r", "a", "t", "e", " ", "l", "i", "m", "i",
       "t", " ", "e", "x", "c", "e", "e", "d", "e", "d">>}
SocketHangUp ==
    <<"s", "o", "c", "k", "e", "t", " ", "h", "a", "n", "g", " ", "u",
      "p">>
SummarizerErrors == {SocketHangUp}

\* The tracker lists the issues of the user, or none of them any more.
JiraResponses(userQuery) ==
    {ResponseOk(JiraIssues(userQuery)), ResponseOk(<<>>)}
        \cup {ResponseFails(e.status, e.text) : e \in JiraErrors}

\* The code host lists the events of the user, or none of them any more.
FeedOutcomes(username) ==
    {FeedOk(ActivityFeed(username)), FeedOk(<<>>)}
        \cup {FeedFails(e) : e \in GitHubErrors}

\* The slot a new invocation takes: a slot whose invocation has returned
\* with no fetch in flight, or that was never used; the oldest of them.
Free(c) == calls[c].pc = "idle" \/ Complete(calls[c])

Oldest(c) ==
    \A d \in Slots :
        Free(d) => \/ calls[c].seq < calls[d].seq
                   \/ (calls[c].seq = calls[d].seq /\ c <= d)

\* Mutation of handleAIQuery: no early return for an unknown user.
handleAIQuery_noFailFast(c, question) ==
    /\ invocations < MaxCalls
    /\ Free(c) /\ Oldest(c)
    /\ invocations' = invocations + 1
    /\ calls' = [calls EXCEPT ![c] =
                    [IdleCall EXCEPT !.question = question,
                                     !.user = findUserInQuery(question),
                                     !.seq = invocations + 1,
                                     !.startedAt = now,
                                     !.pc = "classify",
                                     !.classifierCalls = @ + 1]]
    /\ UNCHANGED <<now, ticks, dataCache, lastWrite, lastGet, fan, cls,
                   resolved, tracker>>

\* Steps 1 and 2 up to the await of the classifier.
handleAIQuery(c, question) ==
    /\ invocations < MaxCalls
    /\ Free(c) /\ Oldest(c)
    /\ invocations' = invocations + 1
    /\ LET user == findUserInQuery(question)
           begun == [IdleCall EXCEPT !.question = question,
                                    !.user = user,
                                    !.seq = invocations + 1,
                                    !.startedAt = now]
       IN calls' = [calls EXCEPT ![c] =
                IF user = NoUser
                THEN [begun EXCEPT !.pc = "done", !.result = UnknownUserReply]
                ELSE [begun EXCEPT !.pc = "classify",
                                   !.classifierCalls = @ + 1]]
    /\ UNCHANGED <<now, ticks, dataCache, lastWrite, lastGet, fan, cls,
                   resolved, tracker>>

\* The earlier invocations that have fully settled and whose start is at
\* most TTL ago, as seen when invocation c reads the cache.
Warm(c) ==
    {calls[d].seq : d \in {e \in Slots \ {c} :
                              /\ Complete(calls[e])
                              /\ now - calls[e].startedAt <= CACHE_TTL}}

\* classifyIntent returns; step 3 issues the fetches of the intent.
ClassifierSettles(c, outcome) ==
    /\ calls[c].pc = "classify"
    /\ LET r == classifyIntent(outcome)
           classified == [calls[c] EXCEPT
                             !.pc = "fetch",
                             !.intent = r.intent,
                             !.warm = Warm(c)]
           issued == IssueFetches(KindsFor(r.intent), classified, dataCache, now)
       IN IF r.raised
          THEN /\ calls' = [calls EXCEPT ![c] =
                      [@ EXCEPT !.pc = "done",
                                !.caught = SocketHangUp,
                                !.result = errorReply(SocketHangUp)]]
               /\ UNCHANGED dataCache
          ELSE /\ calls' = [calls EXCEPT ![c] = Continue(issued.rec, now)]
               /\ dataCache' = issued.cache
    /\ UNCHANGED <<now, ticks, lastWrite, lastGet, fan, cls, invocations,
                   resolved, tracker>>

\* Mutation of Settle: a failed fetch is cached as an empty list.
Settle_cacheFailure(c, kind, r) ==
    /\ calls[c].fetch[kind] = "pending"
    /\ dataCache' = setCachedData(dataCache, cacheKey(kind, calls[c].user),
                                  r.data, now)
    /\ calls' = [calls EXCEPT ![c] =
                    IF r.raised
                    THEN [Reject(@, kind, r.error)
                             EXCEPT !.failedAfter[kind] = r.requests,
                                    !.discovery[kind] = r.discovery]
                    ELSE [Continue(Resolve(@, kind, r.data), now)
                             EXCEPT !.discovery[kind] = r.discovery]]
    /\ UNCHANGED <<now, ticks, lastWrite, lastGet, fan, cls, invocations,
                   resolved, tracker>>

\* The connector call of a fetch function settles with the result r.
Settle(c, kind, r) ==
    /\ calls[c].fetch[kind] = "pending"
    /\ IF r.raised
       THEN /\ calls' = [calls EXCEPT ![c] =
                            [Reject(@, kind, r.error)
                                EXCEPT !.failedAfter[kind] = r.requests,
                                       !.discovery[kind] = r.discovery]]
            /\ UNCHANGED dataCache
       ELSE /\ dataCache' = setCachedData(dataCache,
                                          cacheKey(kind, calls[c].user),
                                          r.data, now)
            /\ calls' = [calls EXCEPT ![c] =
                            [Continue(Resolve(@, kind, r.data), now)
                                EXCEPT !.discovery[kind] = r.discovery]]
    /\ UNCHANGED <<now, ticks, lastWrite, lastGet, fan, cls, invocations,
                   resolved, tracker>>

fetchJiraData(c, response) ==
    Settle(c, "jira",
           searchActiveIssuesByUser(calls[c].user.jiraId, response))

fetchCommitsData(c, feed, failing) ==
    Settle(c, "commits",
           searchRecentCommitsByUser(calls[c].user.githubId, feed, failing, now))

fetchPRsData(c, feed, failing) ==
    Settle(c, "prs",
           searchActivePRsByUser(calls[c].user.githubId, feed, failing))

\* Step 8: the summary call settles.
SummarizerReturns(c) ==
    /\ calls[c].pc = "summarize"
    /\ calls' = [calls EXCEPT ![c] =
                    [@ EXCEPT !.pc = "done", !.result = SummaryReply]]
    /\ UNCHANGED <<now, ticks, dataCache, lastWrite, lastGet, fan, cls,
                   invocations, resolved, tracker>>

SummarizerFails(c, error) ==
    /\ calls[c].pc = "summarize"
    /\ calls' = [calls EXCEPT ![c] =
                    [@ EXCEPT !.pc = "done", !.caught = error,
                              !.result = errorReply(error)]]
    /\ UNCHANGED <<now, ticks, dataCache, lastWrite, lastGet, fan, cls,
                   invocations, resolved, tracker>>

\* More than the lifetime of a cache entry passes.
Elapse ==
    /\ ticks < MaxWaits
    /\ now' = now + CACHE_TTL + 1
    /\ ticks' = ticks + 1
    /\ UNCHANGED <<dataCache, lastWrite, lastGet, fan, cls, calls,
                   invocations, resolved, tracker>>

Next ==
    \/ Elapse
    \/ \E c \in Slots :
        \/ \E question \in QuestionInputs : handleAIQuery(c, question)
        \/ \E outcome \in ClassifierOutcomes : ClassifierSettles(c, outcome)
        \/ \E response \in JiraResponses(calls[c].user.jiraId) :
              fetchJiraData(c, response)
        \/ \E feed \in FeedOutcomes(calls[c].user.githubId) :
              \E failing \in SUBSET Range(getContributionRepos(feed.names)) :
                  \/ fetchCommitsData(c, feed, failing)
                  \/ fetchPRsData(c, feed, failing)
        \/ SummarizerReturns(c)
        \/ \E error \in SummarizerErrors : SummarizerFails(c, error)

Spec == Init /\ [][Next]_vars

-----------------------------------------------------------------------------
(* Specification of one query with every kind of upstream failure *)

\* The failing answers of the tracker: status and body text.
JiraFailureInputs ==
    {[status |-> 401, text |-> <<"U", "n", "a", "u", "t", "h", "o", "r", "i", "z", "e", "d">>],
     [status |-> 403, text |-> <<"F", "o", "r", "b", "i", "d", "d", "e", "n">>],
     [status |-> 404, text |-> <<"N", "o", "t", " ", "F", "o", "u", "n", "d">>],
     [status |-> 429, text |-> <<"T", "o", "o", " ", "M", "a", "n", "y", " ", "R", "e", "q", "u", "e", "s", "t", "s">>],
     [status |-> 500, text |-> <<"I", "n", "t", "e", "r", "n", "a", "l", " ", "S", "e", "r", "v", "e", "r", " ", "E", "r", "r", "o", "r">>],
     [status |-> 500, text |-> <<"t", "r", "a", "c", "e", " ", "4", "0", "3", "1">>]}

\* The failing answers of the code host to the activity feed request: status
\* and the message of the error the client rejects with.
GitHubFailureInputs ==
    {[status |-> 404, text |-> <<"N", "o", "t", " ", "F", "o", "u", "n", "d">>],
     [status |-> 429, text |-> <<"A", "P", "I", " ", "r", "a", "t", "e", " ", "l", "i", "m", "i", "t", " ", "e", "x", "c", "e", "e", "d", "e", "d">>]}

FirstQuery(question) ==
    /\ invocations = 0
    /\ handleAIQuery(1, question)

NextFailures ==
    \/ \E question \in QuestionInputs : FirstQuery(question)
    \/ \E outcome \in ClassifierOutcomes : ClassifierSettles(1, outcome)
    \/ \E response \in
            {ResponseOk(JiraIssues(calls[1].user.jiraId))}
                \cup {ResponseFails(f.status, f.text) : f \in JiraFailureInputs} :
          fetchJiraData(1, response)
    \/ \E feed \in {FeedOk(ActivityFeed(calls[1].user.githubId))}
                      \cup {FeedFails(f.text) : f \in GitHubFailureInputs} :
          \E failing \in SUBSET Range(getContributionRepos(feed.names)) :
              \/ fetchCommitsData(1, feed, failing)
              \/ fetchPRsData(1, feed, failing)
    \/ SummarizerReturns(1)
    \/ \E error \in SummarizerErrors : SummarizerFails(1, error)

SpecFailures == Init /\ [][NextFailures]_vars

-----------------------------------------------------------------------------
(* Specification of one query with collaborators whose calls always settle *)

\* A call of a collaborator that invocation 1 awaits settles, with success
\* or with failure.
CollaboratorSettles ==
    \/ \E outcome \in ClassifierOutcomes : ClassifierSettles(1, outcome)
    \/ \E response \in
            {ResponseOk(JiraIssues(calls[1].user.jiraId))}
                \cup {ResponseFails(f.status, f.text) : f \in JiraFailureInputs} :
          fetchJiraData(1, response)
    \/ \E feed \in {FeedOk(ActivityFeed(calls[1].user.githubId))}
                      \cup {FeedFails(f.text) : f \in GitHubFailureInputs} :
          \E failing \in SUBSET Range(getContributionRepos(feed.names)) :
              \/ fetchCommitsData(1, feed, failing)
              \/ fetchPRsData(1, feed, failing)
    \/ SummarizerReturns(1)
    \/ \E error \in SummarizerErrors : SummarizerFails(1, error)

\* No awaited call stays unsettled for ever.
SpecSettling == Init /\ [][NextFailures]_vars /\ WF_vars(CollaboratorSettles)

-----------------------------------------------------------------------------
(* Specification of questions asked one after the other *)

\* Questions about two persons, three of them about the same person under
\* different aliases and in different words.
PhrasingInputs ==
    {<<"M", "i", "k", "e", "?">>,
     <<"p", "r", "a", "v", "e", "e", "n", "p", "a", "n", "d", "e", "y", "9", "8", "7">>,
     <<"P", "r", "a", "v", "e", "e", "n", "k", " ", "P", "a", "n", "d", "e", "y", "?">>,
     <<"p", "p", "7", "0", "0", "7", "1", "4", "4", "4", "3", "5", "@", "g", "m", "a", "i", "l", ".", "c", "o", "m">>}

\* The next question is asked when the answer to the one before has been
\* returned and none of its fetches is in flight.
AskNext(question) ==
    /\ \A c \in Slots : Free(c)
    /\ \E c \in Slots : handleAIQuery(c, question)

\* Time passes between two questions.
Wait(d) ==
    /\ \A c \in Slots : Free(c)
    /\ invocations \in 1..(MaxCalls - 1)
    /\ Tick(d)

NextSequential ==
    \/ \E d \in TickSteps : Wait(d)
    \/ \E question \in PhrasingInputs : AskNext(question)
    \/ \E c \in Slots :
        \/ \E outcome \in ClassifierOutcomes : ClassifierSettles(c, outcome)
        \/ \E response \in JiraResponses(calls[c].user.jiraId) :
              fetchJiraData(c, response)
        \/ \E feed \in FeedOutcomes(calls[c].user.githubId) :
              \E failing \in SUBSET Range(getContributionRepos(feed.names)) :
                  \/ fetchCommitsData(c, feed, failing)
                  \/ fetchPRsData(c, feed, failing)
        \/ SummarizerReturns(c)
        \/ \E error \in SummarizerErrors : SummarizerFails(c, error)

SpecSequential == Init /\ [][NextSequential]_vars

-----------------------------------------------------------------------------
(* Claims on the fan-out searches, checked under SpecFanOut *)

WellFormedRepos == {RepoA, RepoB, RepoC}

\* What the code host holds for one user in one repository.
PerRepoRecords(op, username, fullName) ==
    LET all == IF op = "commits"
               THEN GitHubCommits(OwnerOf(fullName), RepoOf(fullName))
               ELSE GitHubOpenPulls(OwnerOf(fullName), RepoOf(fullName))
        mine(x) == IF op = "commits"
                   THEN x.author = username /\ x.date >= 0 - 7 * Day
                   ELSE x.login = username
    IN SelectSeq(all, mine)

RecordsFrom(data, fullName) ==
    LET here(x) == x.repo = fullName IN SelectSeq(data, here)

StripRepo(records) ==
    [i \in DOMAIN records |->
        [f \in DOMAIN records[i] \ {"repo"} |-> records[i][f]]]

\* C9: in the fan-out of searchRecentCommitsByUser and searchActivePRsByUser,
\* whichever per-repository fetches fail, the call does not raise and its
\* result holds exactly the records of the discovered repositories that did
\* not fail, and none of a failing one.
C9_FanOutOmitsOnlyFailing ==
    (fan.op \in {"commits", "prs"} /\ fan.feed.ok)
        => /\ ~fan.raised
           /\ \A i \in DOMAIN fan.data :
                 fan.data[i].repo \in Range(fan.feed.names) \ fan.failing
           /\ \A r \in WellFormedRepos :
                 StripRepo(RecordsFrom(fan.data, r)) =
                     IF r \in Range(fan.feed.names) /\ r \notin fan.failing
                     THEN PerRepoRecords(fan.op, fan.username, r)
                     ELSE <<>>

\* Three repositories discovered, exactly one fetch fails: the one of a
\* repository that holds records of the user, which comes first in the list.
C9_Witness ==
    /\ fan.op \in {"commits", "prs"}
    /\ fan.feed.ok
    /\ fan.username = "mikeross88"
    /\ fan.feed.names = <<RepoA, RepoB, RepoC>>
    /\ fan.failing = {RepoA}
    /\ ~fan.raised
    /\ fan.data # <<>>

-----------------------------------------------------------------------------
(* Claims on handleAIQuery, checked under Spec *)

UpstreamCalls(rec) ==
    rec.upstream["jira"] + rec.upstream["prs"] + rec.upstream["commits"]

NoFetchFailed(rec) == \A k \in Kinds : rec.fetch[k] # "failed"

AllDataEmpty(rec) == \A k \in Kinds : rec.data[k] = <<>>

Classified(rec) == rec.pc \in {"fetch", "summarize", "done"} /\ rec.intent # ""

\* Invocation b repeats the question of invocation a: a had returned, with no
\* fetch in flight, when b read the cache, and b read the cache no later
\* than TTL after a began.
Repeats(a, b) ==
    /\ calls[a].seq # 0
    /\ calls[a].seq \in calls[b].warm
    /\ calls[a].user # NoUser
    /\ calls[a].question = calls[b].question

\* C4 as stated: the second invocation with the identical question within
\* the TTL window of the first makes no upstream connector call and makes
\* the summary call.
C4_Original ==
    \A a, b \in Slots :
        Repeats(a, b)
            => /\ UpstreamCalls(calls[b]) = 0
               /\ calls[b].pc = "done" => calls[b].summaryCalls = 1

\* C4 as amended: when the first invocation fetched every kind of its intent
\* from upstream with success and the second one is classified with the same
\* intent, the second makes no upstream connector call; it calls the
\* summarizer for the classification, and for the final summary exactly when
\* the cached data is not all empty.
C4_RepeatServedFromCache ==
    \A a, b \in Slots :
        (/\ Repeats(a, b)
         /\ calls[a].intent = calls[b].intent
         /\ \A k \in Kinds : calls[a].fetch[k] \in {"none", "ok"})
            => /\ UpstreamCalls(calls[b]) = 0
               /\ calls[b].classifierCalls = 1
               /\ calls[b].pc \in {"summarize", "done"}
               /\ calls[b].summaryCalls = IF AllDataEmpty(calls[b]) THEN 0 ELSE 1

\* A repeated full summary, answered from the three cache entries.
C4_Witness ==
    \E a, b \in Slots :
        /\ Repeats(a, b)
        /\ calls[a].intent = "FULL_SUMMARY"
        /\ calls[b].intent = "FULL_SUMMARY"
        /\ \A k \in Kinds : calls[a].fetch[k] = "ok"
        /\ \A k \in Kinds : calls[b].fetch[k] = "hit"
        /\ calls[b].pc = "done"
        /\ calls[b].result = SummaryReply

\* C5: within one invocation at most one upstream fetch is issued per data
\* kind, whatever the intent, and a failed fetch is not issued again.
C5_OneFetchPerKind ==
    \A c \in Slots : \A k \in Kinds :
        /\ calls[c].upstream[k] <= 1
        /\ calls[c].fetch[k] \in {"pending", "ok", "failed"}
              <=> calls[c].upstream[k] = 1

\* A full summary whose three fetches went upstream, one of them failing.
C5_Witness ==
    \E c \in Slots :
        /\ calls[c].intent = "FULL_SUMMARY"
        /\ Complete(calls[c])
        /\ calls[c].fetch["jira"] = "failed"
        /\ calls[c].fetch["prs"] = "ok"
        /\ calls[c].fetch["commits"] = "ok"
        /\ \A k \in Kinds : calls[c].upstream[k] = 1

\* C6 as stated: for a known identity whose issues, commits and reviews come
\* back all empty the no-activity message is returned and the summarizer
\* collaborator is not invoked at any point of the call.
C6_Original ==
    \A c \in Slots :
        (/\ calls[c].pc = "done"
         /\ calls[c].user # NoUser
         /\ AllFetched(calls[c])
         /\ AllDataEmpty(calls[c]))
            => /\ calls[c].result = NoActivityReply(calls[c].user)
               /\ calls[c].classifierCalls + calls[c].summaryCalls = 0

\* C6 as amended: when every fetch of the call succeeds and every fetched
\* collection is empty, the no-activity message is returned without the
\* final summary call; the summarizer collaborator is invoked exactly once in
\* the call, by classifyIntent.
C6_NoActivityWithoutSummary ==
    \A c \in Slots :
        (/\ calls[c].user # NoUser
         /\ Classified(calls[c])
         /\ AllFetched(calls[c])
         /\ AllDataEmpty(calls[c]))
            => /\ calls[c].pc = "done"
               /\ calls[c].result = NoActivityReply(calls[c].user)
               /\ calls[c].summaryCalls = 0
               /\ calls[c].classifierCalls = 1

\* A full summary for which the three kinds, fetched upstream, are empty.
C6_Witness ==
    \E c \in Slots :
        /\ calls[c].pc = "done"
        /\ AllDataEmpty(calls[c])
        /\ calls[c].intent = "FULL_SUMMARY"
        /\ \A k \in Kinds : calls[c].fetch[k] = "ok"
        /\ calls[c].result = NoActivityReply(calls[c].user)

\* The records of a context are of the kind of their section.
IssueRecords(records) == \A i \in DOMAIN records : "key" \in DOMAIN records[i]
PullRecords(records) == \A i \in DOMAIN records : "title" \in DOMAIN records[i]
CommitRecords(records) == \A i \in DOMAIN records : "sha" \in DOMAIN records[i]

\* C7: for a single-kind intent the context handed to the summarizer holds
\* records of that kind only: for COMMITS no issue and no review data, for
\* JIRA issue data only, for PRS review data only.
C7_ContextScopedToIntent ==
    \A c \in Slots :
        calls[c].summaryCalls > 0
            => LET context == calls[c].context IN
               /\ IssueRecords(context["jira"])
               /\ PullRecords(context["prs"])
               /\ CommitRecords(context["commits"])
               /\ calls[c].intent = "COMMITS"
                     => (context["jira"] = <<>> /\ context["prs"] = <<>>
                         /\ context["commits"] # <<>>)
               /\ calls[c].intent = "JIRA"
                     => (context["prs"] = <<>> /\ context["commits"] = <<>>
                         /\ context["jira"] # <<>>)
               /\ calls[c].intent = "PRS"
                     => (context["jira"] = <<>> /\ context["commits"] = <<>>
                         /\ context["prs"] # <<>>)

\* A COMMITS summary while the cache holds issues and reviews of the person.
C7_Witness ==
    \E c \in Slots :
        /\ calls[c].pc = "summarize"
        /\ calls[c].intent = "COMMITS"
        /\ calls[c].context["commits"] # <<>>
        /\ Has(dataCache, cacheKey("jira", calls[c].user))
        /\ dataCache[cacheKey("jira", calls[c].user)].data # <<>>
        /\ Has(dataCache, cacheKey("prs", calls[c].user))
        /\ dataCache[cacheKey("prs", calls[c].user)].data # <<>>

KeyOfIntent(rec) ==
    CASE rec.intent = "JIRA" -> <<"jira", rec.user.jiraId>>
      [] rec.intent = "COMMITS" -> <<"commits", rec.user.githubId>>
      [] rec.intent = "PRS" -> <<"prs", rec.user.githubId>>

KindOfIntent(rec) ==
    CASE rec.intent = "JIRA" -> "jira"
      [] rec.intent = "COMMITS" -> "commits"
      [] rec.intent = "PRS" -> "prs"

\* C8: only the kinds of the classified intent are fetched: for JIRA, COMMITS
\* and PRS only the cache key of that kind is read or written and only the
\* connector of that kind is called; for FULL_SUMMARY the three kinds are
\* fetched.
C8_FetchesOnlyIntentKinds ==
    \A c \in Slots :
        Classified(calls[c])
            => IF calls[c].intent = "FULL_SUMMARY"
               THEN /\ \A k \in Kinds : calls[c].fetch[k] # "none"
                    /\ calls[c].reads =
                           {<<"jira", calls[c].user.jiraId>>,
                            <<"prs", calls[c].user.githubId>>,
                            <<"commits", calls[c].user.githubId>>}
               ELSE /\ calls[c].reads = {KeyOfIntent(calls[c])}
                    /\ calls[c].writes \subseteq {KeyOfIntent(calls[c])}
                    /\ \A k \in Kinds \ {KindOfIntent(calls[c])} :
                          /\ calls[c].fetch[k] = "none"
                          /\ calls[c].upstream[k] = 0

\* A PRS query fetched upstream: the only entry of the cache is its key.
C8_Witness ==
    \E c \in Slots :
        /\ calls[c].intent = "PRS"
        /\ calls[c].fetch["prs"] = "ok"
        /\ calls[c].writes = {<<"prs", calls[c].user.githubId>>}
        /\ DOMAIN dataCache = {<<"prs", calls[c].user.githubId>>}

\* C11: an invocation whose question matches no known alias has returned
\* the unknown-user message in the step it began, without a call of the
\* classifier, of a connector or of the summarizer and without reading or
\* writing the cache; the step that begins it leaves the cache as it was.
C11_UnknownUserFailsFast ==
    /\ [](\A c \in Slots :
            (/\ calls[c].pc # "idle"
             /\ findUserInQuery(calls[c].question) = NoUser)
                => /\ calls[c].pc = "done"
                   /\ calls[c].result = UnknownUserReply
                   /\ calls[c].classifierCalls = 0
                   /\ calls[c].summaryCalls = 0
                   /\ UpstreamCalls(calls[c]) = 0
                   /\ calls[c].reads = {}
                   /\ calls[c].writes = {})
    /\ [][\A c \in Slots :
            (/\ calls'[c].seq # calls[c].seq
             /\ findUserInQuery(calls'[c].question) = NoUser)
                => dataCache' = dataCache]_vars

\* An unknown question answered while the cache holds entries of an earlier
\* invocation.
C11_Witness ==
    \E c \in Slots :
        /\ calls[c].pc = "done"
        /\ calls[c].question = <<"w", "h", "o", "?">>
        /\ calls[c].result = UnknownUserReply
        /\ calls[c].seq = 2
        /\ DOMAIN dataCache # {}

\* C15 as stated: an invocation with intent FULL_SUMMARY that has gone past
\* the await of its fetches (to the summary call or to its return) has no
\* fetch still in flight, so none can write the cache after the return.
C15_Original ==
    \A c \in Slots :
        (/\ calls[c].intent = "FULL_SUMMARY"
         /\ calls[c].pc \in {"summarize", "done"})
            => \A k \in Kinds : calls[c].fetch[k] # "pending"

\* What the code does instead: the invocation has returned the message of
\* the first failure while the two other fetches it issued are in flight.
C15_InFlightAfterReturn ==
    \E c \in Slots :
        /\ calls[c].intent = "FULL_SUMMARY"
        /\ calls[c].pc = "done"
        /\ calls[c].fetch["jira"] = "failed"
        /\ calls[c].result = AuthErrorReply
        /\ calls[c].fetch["prs"] = "pending"
        /\ calls[c].fetch["commits"] = "pending"

\* C19: a fetch that went upstream after a miss and succeeded puts its
\* payload under its key, whatever another invocation put there in the
\* meantime, and the invocation goes on with the payload it fetched; an
\* invocation all of whose fetches succeeded or hit the cache does not end
\* with the message of a connector failure.
C19_DuplicateFetchHarmless ==
    /\ [](\A c \in Slots :
            (/\ calls[c].pc = "done"
             /\ calls[c].user # NoUser
             /\ AllFetched(calls[c]))
                => /\ calls[c].caught \in {<<>>, SocketHangUp}
                   /\ calls[c].result \in
                         {NoActivityReply(calls[c].user), SummaryReply,
                          GenericErrorReply(SocketHangUp)})
    /\ [][\A c \in Slots : \A k \in Kinds :
            (calls[c].fetch[k] = "pending" /\ calls'[c].fetch[k] = "ok")
                => /\ Has(dataCache', cacheKey(k, calls[c].user))
                   /\ dataCache'[cacheKey(k, calls[c].user)] =
                         [data |-> calls'[c].data[k], timestamp |-> now]]_vars

\* Two overlapping invocations for the same user both missed the issues
\* entry, both went upstream and got different payloads; both have ended
\* with an answer and the entry holds the payload of one of them.
C19_Witness ==
    \E a, b \in Slots :
        /\ a # b
        /\ calls[a].user = calls[b].user
        /\ calls[a].user # NoUser
        /\ now = 0
        /\ calls[a].pc = "done" /\ calls[b].pc = "done"
        /\ calls[a].upstream["jira"] = 1 /\ calls[b].upstream["jira"] = 1
        /\ calls[a].fetch["jira"] = "ok" /\ calls[b].fetch["jira"] = "ok"
        /\ calls[a].data["jira"] = <<>>
        /\ calls[b].data["jira"] # <<>>
        /\ calls[a].result = NoActivityReply(calls[a].user)
        /\ calls[b].result = SummaryReply
        /\ dataCache[cacheKey("jira", calls[a].user)].data = <<>>

\* C20 as stated: an entry that is within its TTL is not replaced or
\* removed, and its payload and timestamp do not change, whatever step the
\* invocations take.
C20_Original ==
    [][\A key \in DOMAIN dataCache :
          now - dataCache[key].timestamp <= CACHE_TTL
              => /\ Has(dataCache', key)
                 /\ dataCache'[key] = dataCache[key]]_vars

\* C20 as amended: an entry is stored or replaced only by the put of an
\* invocation that had missed that key and fetched upstream, with the
\* payload fetched and the time of the put, and it is removed only when it
\* is older than the TTL; no other step changes an entry.
C20_WrittenOnlyAfterMiss ==
    [][\A key \in DOMAIN dataCache \cup DOMAIN dataCache' :
          /\ (Has(dataCache, key) /\ ~Has(dataCache', key))
                => now - dataCache[key].timestamp > CACHE_TTL
          /\ (/\ Has(dataCache', key)
              /\ ~Has(dataCache, key) \/ dataCache'[key] # dataCache[key])
                => \E c \in Slots : \E k \in Kinds :
                      /\ cacheKey(k, calls[c].user) = key
                      /\ key \in calls[c].reads
                      /\ calls[c].fetch[k] = "pending"
                      /\ calls'[c].fetch[k] = "ok"
                      /\ dataCache'[key] = [data |-> calls'[c].data[k],
                                            timestamp |-> now]]_vars

\* The issues entry stored by a first invocation has expired and the first
\* miss after that, by a second invocation, has stored it again.
C20_Witness ==
    \E a, b \in Slots :
        /\ calls[a].seq = 1 /\ calls[b].seq = 2
        /\ calls[a].user = calls[b].user
        /\ calls[a].fetch["jira"] = "ok" /\ calls[b].fetch["jira"] = "ok"
        /\ calls[a].startedAt = 0
        /\ calls[b].pc = "done"
        /\ Has(dataCache, cacheKey("jira", calls[b].user))
        /\ dataCache[cacheKey("jira", calls[b].user)].timestamp = CACHE_TTL + 1

-----------------------------------------------------------------------------
(* Claims on the data cache, checked under SpecCache *)

\* C1: whenever getCachedData returns a payload (a hit), the age of the entry
\* at the time of the read, now minus its stored timestamp, is at most the
\* TTL of 5 minutes.
C1_HitAgeWithinTTL ==
    (lastGet.op = "get" /\ lastGet.hit)
        => (lastGet.existed /\ lastGet.at - lastGet.storedAt <= CACHE_TTL)

\* A hit on an entry that is exactly TTL old.
C1_Witness ==
    /\ lastGet.op = "get"
    /\ lastGet.hit
    /\ lastGet.at - lastGet.storedAt = CACHE_TTL

\* C2: getCachedData returns a miss for a key that was never written and for
\* a key whose last write is more than TTL before the read; in the expired
\* case the read removes the entry, so the key is absent afterwards.
C2_MissWhenUnwrittenOrExpired ==
    (/\ lastGet.op = "get"
     /\ \/ ~lastGet.written
        \/ lastGet.at - lastGet.writtenAt > CACHE_TTL)
        => (~lastGet.hit /\ ~lastGet.presentAfter)

\* A read of an entry that was in the Map and is more than TTL old.
C2_Witness ==
    /\ lastGet.op = "get"
    /\ lastGet.written
    /\ lastGet.existed
    /\ lastGet.at - lastGet.writtenAt > CACHE_TTL
    /\ ~lastGet.hit

\* C3: a getCachedData on a key after a setCachedData on that key, with no
\* write to the key in between and less than TTL elapsed, returns exactly the
\* payload written, whatever the payload (the empty list included).
C3_GetAfterSetReturnsPayload ==
    (/\ lastGet.op = "get"
     /\ lastGet.written
     /\ lastGet.at - lastGet.writtenAt < CACHE_TTL)
        => (lastGet.hit /\ lastGet.data = lastGet.writtenData)

\* The empty payload read back after some time has passed.
C3_Witness ==
    /\ lastGet.op = "get"
    /\ lastGet.written
    /\ lastGet.at - lastGet.writtenAt = 1
    /\ lastGet.writtenData = <<>>
    /\ lastGet.hit

-----------------------------------------------------------------------------
(* Claims on classifyIntent, checked under SpecClassify *)

\* The label a text stands for: the text is the label in some letter case,
\* surrounded by white space only.
StandsFor(text, l) ==
    \E pre \in Padding, post \in Padding :
        \E word \in {LabelText(l), toLowerCase(LabelText(l)),
                     Capitalized(LabelText(l))} :
            text = pre \o word \o post

\* C10: classifyIntent always returns one of the four labels: the label of
\* the model when it answers with one, and FULL_SUMMARY for any other answer
\* and for any failure of the model call; it never raises.
C10_ClassifyIntentTotal ==
    (cls.op = "classify")
        => /\ ~cls.raised
           /\ cls.intent \in Intents
           /\ \A l \in Intents :
                 (cls.outcome.kind = "text" /\ StandsFor(cls.outcome.text, l))
                     => cls.intent = l
           /\ (\/ cls.outcome.kind # "text"
               \/ \A l \in Intents : ~StandsFor(cls.outcome.text, l))
                 => cls.intent = "FULL_SUMMARY"

\* The model answers with a label in lower case and a trailing line feed.
C10_Witness ==
    /\ cls.op = "classify"
    /\ cls.outcome = ModelText(<<"c", "o", "m", "m", "i", "t", "s", "\n">>)
    /\ cls.intent = "COMMITS"

-----------------------------------------------------------------------------
(* Claims on findUserInQuery, checked under SpecResolve *)

\* The text contains the alias, whatever the letter case of either.
ContainsAlias(text, alias) ==
    \E i \in 0..(Len(text) - Len(alias)) :
        \A j \in DOMAIN alias :
            toLowerCaseChar(text[i + j]) = toLowerCaseChar(alias[j])

IdentityOf(i) ==
    [jiraId |-> userMapping[i].jiraId, githubId |-> userMapping[i].githubId]

\* C12 as stated: a text that contains an alias resolves to the identity of
\* that alias, also when it contains aliases of other entries.
C12_Original ==
    resolved.op = "resolve" =>
        \A i \in DOMAIN userMapping :
            ContainsAlias(resolved.text, userMapping[i].key)
                => resolved.user = IdentityOf(i)

\* C12 as amended: a text that contains an alias in any letter case, and no
\* alias of an earlier entry of the mapping table, resolves to the identity
\* of that alias.
C12_FirstAliasInTableOrder ==
    resolved.op = "resolve" =>
        \A i \in DOMAIN userMapping :
            (/\ ContainsAlias(resolved.text, userMapping[i].key)
             /\ \A j \in 1..(i - 1) :
                   ~ContainsAlias(resolved.text, userMapping[j].key))
                => resolved.user = IdentityOf(i)

\* "LISAMike": an upper-case alias and the alias of an earlier entry.
C12_Witness ==
    /\ resolved.op = "resolve"
    /\ resolved.text = <<"L", "I", "S", "A", "M", "i", "k", "e">>
    /\ resolved.user = [jiraId |-> "Mike Ross", githubId |-> "mikeross88"]

\* C13: a text that contains no alias of the mapping table, in any letter
\* case, resolves to null.
C13_NoAliasGivesNull ==
    resolved.op = "resolve" =>
        ((\A i \in DOMAIN userMapping :
             ~ContainsAlias(resolved.text, userMapping[i].key))
            => resolved.user = NoUser)

\* "PraveenkPandeymi": parts of aliases that make no alias.
C13_Witness ==
    /\ resolved.op = "resolve"
    /\ resolved.text = <<"P", "r", "a", "v", "e", "e", "n", "k", "P", "a", "n", "d", "e", "y", "m", "i">>
    /\ resolved.user = NoUser

\* C14: a resolution gives null or the two ids of an entry of the mapping
\* table, and every entry of the table has two non-empty ids.
C14_TotalIdentityOrNull ==
    /\ \A i \in DOMAIN userMapping :
          userMapping[i].jiraId # "" /\ userMapping[i].githubId # ""
    /\ resolved.op = "resolve" =>
          \/ resolved.user = NoUser
          \/ /\ resolved.user.jiraId # ""
             /\ resolved.user.githubId # ""
             /\ \E i \in DOMAIN userMapping : resolved.user = IdentityOf(i)

\* The e-mail alias, whose tracker id differs from the other aliases of the
\* same person.
C14_Witness ==
    /\ resolved.op = "resolve"
    /\ resolved.text = <<"w", "h", "o", " ", "p", "p", "7", "0", "0", "7", "1", "4", "4", "4", "3", "5", "@", "g", "m", "a", "i", "l", ".", "c", "o", "m">>
    /\ resolved.user = [jiraId |-> "pp7007144435@gmail.com",
                        githubId |-> "PraveenPandey987"]

-----------------------------------------------------------------------------
(* Claims on the failures of one query, checked under SpecFailures *)

ErrorReplies(error) ==
    {RepoNotFoundReply, AuthErrorReply, RateLimitReply,
     GenericErrorReply(error)}

\* C16: an invocation that has ended has returned one of the message
\* strings; when a connector or the summary call failed while the
\* invocation was waiting, it has ended with one of the error messages,
\* made from the text of the failure.
C16_FailuresBecomeMessages ==
    \A c \in Slots :
        /\ calls[c].pc = "done"
              => calls[c].result \in
                    {UnknownUserReply, NoActivityReply(calls[c].user),
                     SummaryReply} \cup ErrorReplies(calls[c].caught)
        /\ (\/ \E k \in Kinds : calls[c].fetch[k] = "failed"
            \/ calls[c].caught # <<>>)
              => /\ calls[c].pc = "done"
                 /\ calls[c].caught # <<>>
                 /\ calls[c].result = errorReply(calls[c].caught)
                 /\ calls[c].result \in ErrorReplies(calls[c].caught)

\* The summary call fails after the data was fetched.
C16_Witness ==
    \E c \in Slots :
        /\ calls[c].pc = "done"
        /\ calls[c].summaryCalls = 1
        /\ calls[c].caught = SocketHangUp
        /\ calls[c].result = GenericErrorReply(SocketHangUp)

\* The category of a failure, by the status of the upstream answer.
Category(status) ==
    IF status \in {401, 403} THEN "auth"
    ELSE IF status = 404 THEN "notFound"
    ELSE IF status = 429 THEN "rateLimit"
    ELSE "other"

\* The failures of the two connectors with the text of the error thrown.
UpstreamFailures ==
    {[status |-> f.status, message |-> JiraErrorMessage(f.status, f.text)] :
        f \in JiraFailureInputs}
    \cup {[status |-> f.status, message |-> f.text] :
             f \in GitHubFailureInputs}

ExpectedReply(f) ==
    CASE Category(f.status) = "auth" -> AuthErrorReply
      [] Category(f.status) = "notFound" -> RepoNotFoundReply
      [] Category(f.status) = "rateLimit" -> RateLimitReply
      [] OTHER -> GenericErrorReply(f.message)

\* C17 as stated: a failure of each category is answered with the message of
\* its category and of no other.
C17_Original ==
    \A c \in Slots :
        calls[c].pc = "done" =>
            \A f \in UpstreamFailures :
                calls[c].caught = f.message
                    => calls[c].result = ExpectedReply(f)

\* What the code does instead: the tracker answers 429 and the invocation
\* returns the generic message.
C17_RateLimitAnsweredGeneric ==
    \E c \in Slots :
        /\ calls[c].pc = "done"
        /\ calls[c].fetch["jira"] = "failed"
        /\ calls[c].caught =
              JiraErrorMessage(429, <<"T", "o", "o", " ", "M", "a", "n", "y", " ", "R", "e", "q", "u", "e", "s", "t", "s">>)
        /\ calls[c].result = GenericErrorReply(calls[c].caught)

-----------------------------------------------------------------------------
(* Claims on the JIRA searches, checked under SpecJira *)

\* C18: when the tracker answers with a status outside 200..299, both
\* searches throw an error whose text carries the status and the body of
\* the answer, and return no list; with a success status they return the
\* list.
C18_TrackerFailureNotSwallowed ==
    tracker.op # "none" =>
        IF tracker.response.status \in 200..299
        THEN ~tracker.raised
        ELSE /\ tracker.raised
             /\ tracker.data = <<>>
             /\ includes(tracker.error,
                         NumberText(tracker.response.status)
                             \o <<":", " ">> \o tracker.response.text)

\* searchAllIssuesByUser against an answer 403 "Forbidden".
C18_Witness ==
    /\ tracker.op = "all"
    /\ tracker.response.status = 403
    /\ tracker.raised
    /\ includes(tracker.error, <<"4", "0", "3">>)
    /\ includes(tracker.error, <<"F", "o", "r", "b", "i", "d", "d", "e", "n">>)

-----------------------------------------------------------------------------
(* Claims on questions asked one after the other, checked under            *)
(* SpecSequential; no time passes while one question is handled, so the    *)
(* time of every step of an invocation is its startedAt.                   *)

\* C21: no record of a cached payload has a relativeTime field, whatever
\* was asked before; the issues and commits handed to the summarizer carry
\* the relative time worked out at the time of that invocation.
C21_RelativeTimeNotCached ==
    /\ \A key \in DOMAIN dataCache :
          \A i \in DOMAIN dataCache[key].data :
              "relativeTime" \notin DOMAIN dataCache[key].data[i]
    /\ \A c \in Slots :
          /\ \A i \in DOMAIN calls[c].context["jira"] :
                calls[c].context["jira"][i].relativeTime =
                    getRelativeTime(calls[c].context["jira"][i].lastUpdated,
                                    calls[c].startedAt)
          /\ \A i \in DOMAIN calls[c].context["commits"] :
                calls[c].context["commits"][i].relativeTime =
                    getRelativeTime(calls[c].context["commits"][i].date,
                                    calls[c].startedAt)

\* The same cached issue, updated 59 minutes and 59.999 seconds before the
\* first question: "59 minutes ago" for the first question, "1 hour ago"
\* for the second one, asked a millisecond later and served from the cache.
C21_Witness ==
    \E a, b \in Slots :
        /\ calls[a].seq = 1 /\ calls[b].seq = 2
        /\ calls[a].startedAt = 0 /\ calls[b].startedAt = 1
        /\ calls[a].fetch["jira"] = "ok" /\ calls[b].fetch["jira"] = "hit"
        /\ calls[b].pc = "done"
        /\ Len(calls[a].context["jira"]) = 1
        /\ Len(calls[b].context["jira"]) = 1
        /\ calls[a].context["jira"][1].relativeTime = <<59, "minutes ago">>
        /\ calls[b].context["jira"][1].relativeTime = <<1, "hour ago">>
        /\ dataCache[cacheKey("jira", calls[b].user)].data =
              <<[key |-> "TS-1", lastUpdated |-> 1 - Hour]>>

\* C22: every record of the context handed to the summarizer, of each of
\* the three kinds, has a relativeTime field.
C22_Original ==
    \A c \in Slots :
        \A kind \in Kinds :
            \A i \in DOMAIN calls[c].context[kind] :
                "relativeTime" \in DOMAIN calls[c].context[kind][i]

\* A summary was made from a context whose issues and commits carry a
\* relative time and whose pull request carries none.
C22_PRsUndecorated ==
    \E c \in Slots :
        /\ calls[c].summaryCalls = 1
        /\ calls[c].context["prs"] # <<>>
        /\ calls[c].context["jira"] # <<>>
        /\ "relativeTime" \in DOMAIN calls[c].context["jira"][1]
        /\ \A i \in DOMAIN calls[c].context["prs"] :
              "relativeTime" \notin DOMAIN calls[c].context["prs"][i]

\* Invocation b follows invocation a with a question in other words: a had
\* returned, with no fetch in flight, when b read the cache, and b read the
\* cache no later than TTL after a began.
Rephrases(a, b) ==
    /\ calls[a].seq # 0
    /\ calls[a].seq \in calls[b].warm
    /\ calls[a].user # NoUser
    /\ calls[b].user # NoUser
    /\ calls[a].question # calls[b].question

\* The identifier of a user in the system that serves a kind.
SystemId(kind, user) == IF kind = "jira" THEN user.jiraId ELSE user.githubId

KnownIdentities == {IdentityOf(i) : i \in DOMAIN userMapping}

KnownKeys ==
    {<<kind, SystemId(kind, user)>> : kind \in Kinds, user \in KnownIdentities}

\* C25: the keys of the cache are keys made of one of the three kinds and
\* the identifier of a known identity in the system of that kind, and there
\* are at most three times as many entries as known identities.
C25_KeySpaceBounded ==
    /\ DOMAIN dataCache \subseteq KnownKeys
    /\ Cardinality(DOMAIN dataCache) <= 3 * Cardinality(KnownIdentities)

\* Two full summaries about two persons have filled six entries.
C25_Witness ==
    /\ Cardinality(DOMAIN dataCache) = 6
    /\ \E a, b \in Slots :
          /\ calls[a].user.githubId = "mikeross88"
          /\ calls[b].user.githubId = "PraveenPandey987"
          /\ \A k \in Kinds :
                /\ cacheKey(k, calls[a].user) \in DOMAIN dataCache
                /\ cacheKey(k, calls[b].user) \in DOMAIN dataCache

\* C30: an empty list that a fetch returned is in the cache under its key;
\* a later question that reads the key within the TTL, after the first one
\* has returned, gets the empty list as a hit and makes no upstream call
\* for the kind.
C30_EmptyResultCached ==
    /\ \A a \in Slots : \A k \in Kinds :
          (/\ calls[a].seq = invocations
           /\ calls[a].fetch[k] = "ok"
           /\ calls[a].data[k] = <<>>)
              => /\ Has(dataCache, cacheKey(k, calls[a].user))
                 /\ dataCache[cacheKey(k, calls[a].user)].data = <<>>
    /\ \A a, b \in Slots : \A k \in Kinds :
          (/\ calls[a].seq # 0
           /\ calls[a].seq \in calls[b].warm
           /\ calls[a].fetch[k] = "ok"
           /\ calls[a].data[k] = <<>>
           /\ cacheKey(k, calls[a].user) \in calls[b].reads)
              => /\ calls[b].fetch[k] = "hit"
                 /\ calls[b].data[k] = <<>>
                 /\ calls[b].upstream[k] = 0

\* The tracker returned no issue for the first question; the same question
\* a millisecond later is answered from the cached empty list, with the
\* no-activity message and without a call of the tracker.
C30_Witness ==
    \E a, b \in Slots :
        /\ Repeats(a, b)
        /\ calls[a].intent = "JIRA" /\ calls[b].intent = "JIRA"
        /\ calls[a].fetch["jira"] = "ok"
        /\ calls[a].data["jira"] = <<>>
        /\ calls[b].fetch["jira"] = "hit"
        /\ calls[b].data["jira"] = <<>>
        /\ UpstreamCalls(calls[b]) = 0
        /\ calls[b].result = NoActivityReply(calls[b].user)
        /\ calls[b].startedAt = 1

-----------------------------------------------------------------------------
(* Claims on the answer to a repeated question, checked under Spec *)

-----------------------------------------------------------------------------
(* Claims on the order of the steps of handleAIQuery, checked under Spec *)

\* The position of an invocation in the pipeline.
Stage(rec) ==
    CASE rec.pc = "idle" -> 0
      [] rec.pc = "classify" -> 1
      [] rec.pc = "fetch" -> 2
      [] rec.pc = "summarize" -> 3
      [] rec.pc = "done" -> 4

\* C26: an invocation for a known person calls the classifier once, and
\* before it has read the cache or called a connector; it makes the summary
\* call at most once, only when every fetch of its intent has returned with
\* success and some collection is not empty, and then it has called the
\* model twice; its position in the pipeline never moves backwards.
C26_LinearPipeline ==
    /\ [](\A c \in Slots :
            /\ calls[c].classifierCalls =
                  (IF calls[c].pc = "idle" \/ calls[c].user = NoUser THEN 0 ELSE 1)
            /\ calls[c].pc \in {"idle", "classify"}
                  => /\ calls[c].reads = {}
                     /\ UpstreamCalls(calls[c]) = 0
                     /\ calls[c].summaryCalls = 0
            /\ calls[c].summaryCalls <= 1
            /\ calls[c].summaryCalls = 1
                  => /\ AllFetched(calls[c])
                     /\ ~AllDataEmpty(calls[c])
                     /\ calls[c].pc \in {"summarize", "done"}
                     /\ calls[c].classifierCalls + calls[c].summaryCalls = 2
            /\ calls[c].pc = "summarize" => calls[c].summaryCalls = 1)
    /\ [][\A c \in Slots :
            calls'[c].seq = calls[c].seq
                => /\ Stage(calls'[c]) >= Stage(calls[c])
                   /\ calls'[c].classifierCalls >= calls[c].classifierCalls
                   /\ calls'[c].summaryCalls >= calls[c].summaryCalls]_vars

\* A full summary with the three kinds fetched upstream has been returned
\* after two calls of the model.
C26_Witness ==
    \E c \in Slots :
        /\ calls[c].intent = "FULL_SUMMARY"
        /\ \A k \in Kinds : calls[c].fetch[k] = "ok"
        /\ calls[c].pc = "done"
        /\ calls[c].result = SummaryReply
        /\ calls[c].classifierCalls = 1
        /\ calls[c].summaryCalls = 1

\* The entry of a key that a read at time t returns.
ValidEntry(cache, key, t) == Has(cache, key) /\ ~isExpired(cache[key], t)

\* C27: in a full summary each kind is looked up under its own key: the
\* kinds with a valid entry are served from it without an upstream call,
\* the other kinds, and only they, are fetched upstream, and each of them is
\* written to the cache when its fetch has returned its payload.
C27_IndependentCacheCheck ==
    /\ [](\A c \in Slots :
            calls[c].intent = "FULL_SUMMARY"
                => \A k \in Kinds :
                      LET key == cacheKey(k, calls[c].user) IN
                      /\ key \in calls[c].reads
                      /\ calls[c].fetch[k] \in {"hit", "pending", "ok", "failed"}
                      /\ calls[c].upstream[k] =
                            (IF calls[c].fetch[k] = "hit" THEN 0 ELSE 1)
                      /\ key \in calls[c].writes <=> calls[c].fetch[k] = "ok")
    /\ [][\A c \in Slots :
            (calls[c].pc = "classify" /\ calls'[c].intent = "FULL_SUMMARY")
                => \A k \in Kinds :
                      LET key == cacheKey(k, calls[c].user) IN
                      IF ValidEntry(dataCache, key, now)
                      THEN /\ calls'[c].fetch[k] = "hit"
                           /\ calls'[c].data[k] = dataCache[key].data
                           /\ dataCache'[key] = dataCache[key]
                      ELSE /\ calls'[c].fetch[k] = "pending"
                           /\ calls'[c].upstream[k] = 1]_vars
    /\ [][\A c \in Slots : \A k \in Kinds :
            (/\ calls[c].intent = "FULL_SUMMARY"
             /\ calls[c].fetch[k] = "pending"
             /\ calls'[c].fetch[k] = "ok")
                => LET key == cacheKey(k, calls[c].user) IN
                   /\ Has(dataCache', key)
                   /\ dataCache'[key] =
                         [data |-> calls'[c].data[k], timestamp |-> now]]_vars

\* A full summary found the issues in the cache and fetched pull requests
\* and commits upstream; both are cached now.
C27_Witness ==
    \E c \in Slots :
        /\ calls[c].intent = "FULL_SUMMARY"
        /\ calls[c].fetch["jira"] = "hit"
        /\ calls[c].fetch["prs"] = "ok"
        /\ calls[c].fetch["commits"] = "ok"
        /\ calls[c].upstream = [jira |-> 0, prs |-> 1, commits |-> 1]
        /\ calls[c].writes =
              {cacheKey("prs", calls[c].user), cacheKey("commits", calls[c].user)}
        /\ calls[c].pc = "done"

\* Some fetch of an invocation returns its payload in this step.
FetchSucceeds(key) ==
    \E c \in Slots : \E k \in Kinds :
        /\ cacheKey(k, calls[c].user) = key
        /\ calls[c].fetch[k] = "pending"
        /\ calls'[c].fetch[k] = "ok"
        /\ calls'[c].data[k] = dataCache'[key].data

\* C28: an entry is stored or replaced only in a step in which a fetch of
\* its key returns with success; the step in which a fetch fails changes
\* nothing in the cache; an invocation with a failed fetch has returned the
\* message for the failure without a summary call and has not written the
\* key; a fetch that succeeds is cached also when another fetch of the same
\* full summary has failed before.
C28_WrittenOnlyAfterSuccess ==
    /\ [][\A key \in DOMAIN dataCache' :
            (~Has(dataCache, key) \/ dataCache'[key] # dataCache[key])
                => FetchSucceeds(key)]_vars
    /\ [][(\E c \in Slots : \E k \in Kinds :
                calls[c].fetch[k] = "pending" /\ calls'[c].fetch[k] = "failed")
              => dataCache' = dataCache]_vars
    /\ [](\A c \in Slots : \A k \in Kinds :
            calls[c].fetch[k] = "failed"
                => /\ calls[c].pc = "done"
                   /\ calls[c].summaryCalls = 0
                   /\ calls[c].caught # <<>>
                   /\ calls[c].result = errorReply(calls[c].caught)
                   /\ cacheKey(k, calls[c].user) \notin calls[c].writes)
    /\ [][\A c \in Slots : \A k \in Kinds :
            (/\ \E j \in Kinds : calls[c].fetch[j] = "failed"
             /\ calls[c].fetch[k] = "pending"
             /\ calls'[c].fetch[k] = "ok")
                => dataCache'[cacheKey(k, calls[c].user)] =
                       [data |-> calls'[c].data[k], timestamp |-> now]]_vars

\* A full summary on an empty cache: the commits were fetched, then the
\* tracker failed and the authentication message was returned, then the
\* pull requests arrived; commits and pull requests are cached, the issues
\* are not.
C28_Witness ==
    \E c \in Slots :
        /\ calls[c].intent = "FULL_SUMMARY"
        /\ calls[c].seq = 1
        /\ calls[c].fetch = [jira |-> "failed", prs |-> "ok", commits |-> "ok"]
        /\ calls[c].result = AuthErrorReply
        /\ calls[c].summaryCalls = 0
        /\ ~Has(dataCache, cacheKey("jira", calls[c].user))
        /\ Has(dataCache, cacheKey("prs", calls[c].user))
        /\ Has(dataCache, cacheKey("commits", calls[c].user))
        /\ invocations = 1

-----------------------------------------------------------------------------
(* Claims on a failure of the repository discovery, checked under          *)
(* SpecFailures                                                            *)

\* C29: when the activity feed request of a search fails, the search fails
\* after no per-repository request, handleAIQuery has caught a failure and
\* returned its message without a summary, and the key of the kind is not in
\* the cache; when the feed request succeeds, the search returns a list
\* whichever repositories fail.
C29_DiscoveryFailureNotTolerated ==
    \A c \in Slots : \A k \in {"prs", "commits"} :
        /\ calls[c].discovery[k] = "failed"
              => /\ calls[c].fetch[k] = "failed"
                 /\ calls[c].failedAfter[k] = <<>>
                 /\ calls[c].pc = "done"
                 /\ calls[c].summaryCalls = 0
                 /\ calls[c].caught # <<>>
                 /\ calls[c].intent # "FULL_SUMMARY"
                       => calls[c].caught \in
                              {f.text : f \in GitHubFailureInputs}
                 /\ calls[c].result = errorReply(calls[c].caught)
                 /\ cacheKey(k, calls[c].user) \notin calls[c].writes
                 /\ ~Has(dataCache, cacheKey(k, calls[c].user))
        /\ calls[c].discovery[k] = "ok" => calls[c].fetch[k] = "ok"

\* The question was classified COMMITS, the activity feed request was
\* answered with the rate limit error: the try-again-later message has been
\* returned and the cache is empty.
C29_Witness ==
    \E c \in Slots :
        /\ calls[c].intent = "COMMITS"
        /\ calls[c].discovery["commits"] = "failed"
        /\ calls[c].fetch["commits"] = "failed"
        /\ calls[c].result = RateLimitReply
        /\ DOMAIN dataCache = {}

-----------------------------------------------------------------------------
(* Claims on the frame of the cache operations, checked under SpecCache *)

\* The entry under the key is not the same before and after the step.
EntryChanges(key) ==
    \/ Has(dataCache, key) # Has(dataCache', key)
    \/ Has(dataCache, key) /\ Has(dataCache', key)
          /\ dataCache'[key] # dataCache[key]

\* C31: an entry leaves the cache only in the step of a getCachedData on
\* its own key at a time later than its timestamp plus the TTL; a step
\* changes the entry of at most one key, the key that is read or written;
\* a step in which time passes changes nothing in the cache.
C31_LazyExpiryPerKey ==
    /\ [][\A key \in DOMAIN dataCache :
            ~Has(dataCache', key)
                => /\ lastGet'.op = "get"
                   /\ lastGet'.key = key
                   /\ lastGet'.at = now
                   /\ ~lastGet'.hit
                   /\ now - dataCache[key].timestamp > CACHE_TTL]_vars
    /\ [][\A key \in CacheKeyInputs :
            EntryChanges(key)
                => /\ \A other \in CacheKeyInputs \ {key} : ~EntryChanges(other)
                   /\ \/ lastGet'.op = "get" /\ lastGet'.key = key
                         /\ lastGet'.at = now /\ ~Has(dataCache', key)
                      \/ /\ Has(lastWrite', key) /\ lastWrite'[key].at = now
                         /\ Has(dataCache', key)
                         /\ dataCache'[key] =
                               [data |-> lastWrite'[key].data,
                                timestamp |-> now]]_vars
    /\ [][now' # now => dataCache' = dataCache]_vars

\* Two entries are older than the TTL; the read of one of them has removed
\* it and the other one is still in the Map.
C31_Witness ==
    /\ lastGet.op = "get"
    /\ lastGet.at = now
    /\ lastGet.existed
    /\ ~Has(dataCache, lastGet.key)
    /\ \E other \in DOMAIN dataCache :
          /\ other # lastGet.key
          /\ isExpired(dataCache[other], now)

-----------------------------------------------------------------------------
(* Claims on termination, checked under SpecSettling *)

\* C32: when every awaited call of a collaborator settles, an invocation
\* of handleAIQuery with a question string that waits for the classifier,
\* for its fetches or for the summary returns one of the answers at some
\* later time, and every fetch it has in flight settles. The invocation of
\* SpecSettling is invocation 1.
C32_EveryCallReturns ==
    /\ (calls[1].pc \in {"classify", "fetch", "summarize"})
          ~> (calls[1].pc = "done" /\ calls[1].result.text # "(rejected)")
    /\ (\E k \in Kinds : calls[1].fetch[k] = "pending")
          ~> Complete(calls[1])

\* An invocation has waited for the classifier, for a connector and for the
\* summarizer and has returned the summary.
C32_Witness ==
    \E c \in Slots :
        /\ calls[c].pc = "done"
        /\ calls[c].intent = "COMMITS"
        /\ calls[c].classifierCalls = 1
        /\ calls[c].upstream["commits"] = 1
        /\ calls[c].summaryCalls = 1
        /\ calls[c].result = SummaryReply
        /\ Complete(calls[c])

====
